---- MODULE Spec2Model ----
(***************************************************************************)
(* Portfolio analytics engine of GPT_Portfolio_app: allocation generators, *)
(* the backtest routines (portfolio_engine.py, app.py), and the Risk Lab   *)
(* numerical core (core/returns.py, core/metrics.py, core/var.py,          *)
(* utils/data_loader.py).                                                  *)
(*                                                                         *)
(* Numbers.  A float is modelled by an exact rational <<n, d>> in lowest   *)
(* terms with d > 0; <<0, 0>> is NaN.  Values the code obtains through a   *)
(* square root or a fractional power are kept as tagged terms ("values",   *)
(* see VQ, VSqrt, VPow1, VDiv) whose zero / NaN / sign tests are exact.    *)
(*                                                                         *)
(* Frames.  A pandas Series is [index, values]; a DataFrame is             *)
(* [index, columns, data] with data[i][j] the cell of row i, column j.     *)
(* Dates are day numbers; day 1 is a Monday.                               *)
(***************************************************************************)
EXTENDS Integers, Sequences, FiniteSets, TLC

VARIABLES
    df_alloc,       \* allocation frame shown by the generator / upload pages
    weights,        \* pd.Series of weights (Risk Lab: manual input or session)
    prices,         \* price DataFrame handed back by the provider adapter
    returns,        \* return DataFrame (compute_returns)
    portfolio_ret,  \* portfolio return Series (portfolio_returns)
    portfolio_value,\* value curve (compute_portfolio_value)
    result,         \* the last call: [fn, args, status, type, msg, value]
    requests,       \* the requests the last call sent to the price provider
    cache           \* lru_cache of _download_price_data_cached, oldest first

vars == <<df_alloc, weights, prices, returns, portfolio_ret, portfolio_value, result,
          requests, cache>>

----------------------------------------------------------------------------
\* Bounds of the model

MaxRows == 4        \* rows of a price table the provider returns

----------------------------------------------------------------------------
\* Exact rational arithmetic with NaN

Abs(x) == IF x < 0 THEN -x ELSE x

RECURSIVE GCD(_, _)
GCD(a, b) == IF b = 0 THEN a ELSE GCD(b, a % b)

NaN == <<0, 0>>

IsNaN(x) == x[2] = 0

Rat(n, d) ==
    IF d = 0 THEN NaN
    ELSE LET g == GCD(Abs(n), Abs(d))
             s == IF d < 0 THEN -1 ELSE 1
         IN  <<(s * n) \div g, (s * d) \div g>>

Num(i) == <<i, 1>>

\* (denominators are reduced by their gcd before multiplying, which keeps
\* the intermediate products small)
Add(x, y) == IF IsNaN(x) \/ IsNaN(y) THEN NaN
             ELSE LET g == GCD(x[2], y[2])
                  IN  Rat(x[1] * (y[2] \div g) + y[1] * (x[2] \div g), (x[2] \div g) * y[2])

Neg(x) == IF IsNaN(x) THEN NaN ELSE <<-x[1], x[2]>>

Sub(x, y) == Add(x, Neg(y))

Mul(x, y) == IF IsNaN(x) \/ IsNaN(y) THEN NaN
             ELSE LET g == GCD(Abs(x[1]), y[2])
                      h == GCD(Abs(y[1]), x[2])
                  IN  Rat((x[1] \div g) * (y[1] \div h), (x[2] \div h) * (y[2] \div g))

\* x / y of floats; numpy yields nan or inf for a zero divisor: both are
\* "not a finite number" here.  Every division the code guards is guarded
\* in the model as well.
Div(x, y) == IF IsNaN(x) \/ IsNaN(y) \/ y[1] = 0 THEN NaN
             ELSE Mul(x, Rat(y[2], y[1]))

\* Comparisons: any comparison with NaN is False, NaN != x is True.
Lt(x, y) == ~IsNaN(x) /\ ~IsNaN(y) /\ Sub(x, y)[1] < 0
Le(x, y) == ~IsNaN(x) /\ ~IsNaN(y) /\ Sub(x, y)[1] <= 0
Gt(x, y) == Lt(y, x)
Eq(x, y) == ~IsNaN(x) /\ ~IsNaN(y) /\ x = y
Ne(x, y) == ~Eq(x, y)

Max2(x, y) == IF Gt(x, y) THEN x ELSE y      \* Python max(x, y)

\* floor of a finite rational
Floor(x) == x[1] \div x[2]

\* Python round(x, 2) / round(x, 4): to the nearest multiple of 1 / scale,
\* ties to even.
RoundTo(x, scale) ==
    LET n == x[1] * scale
        f == n \div x[2]
        r2 == 2 * (n % x[2])
        k == IF r2 > x[2] THEN f + 1
             ELSE IF r2 < x[2] THEN f
             ELSE IF f % 2 = 0 THEN f ELSE f + 1
    IN  Rat(k, scale)

----------------------------------------------------------------------------
\* Sequences of rationals

RECURSIVE SumSeq(_)
SumSeq(s) == IF s = <<>> THEN Num(0) ELSE Add(Head(s), SumSeq(Tail(s)))

\* pandas sum(skipna=True): NaN cells are skipped, an empty sum is 0
RECURSIVE SumSkipNa(_)
SumSkipNa(s) ==
    IF s = <<>> THEN Num(0)
    ELSE IF IsNaN(Head(s)) THEN SumSkipNa(Tail(s))
    ELSE Add(Head(s), SumSkipNa(Tail(s)))

RECURSIVE ProdSeq(_)
ProdSeq(s) == IF s = <<>> THEN Num(1) ELSE Mul(Head(s), ProdSeq(Tail(s)))

RECURSIVE MaxSeq(_)
MaxSeq(s) == IF Len(s) = 1 THEN s[1] ELSE Max2(MaxSeq(SubSeq(s, 1, Len(s) - 1)), s[Len(s)])

RECURSIVE MinSeq(_)
MinSeq(s) ==
    IF Len(s) = 1 THEN s[1]
    ELSE LET m == MinSeq(SubSeq(s, 1, Len(s) - 1))
         IN  IF Lt(s[Len(s)], m) THEN s[Len(s)] ELSE m

CumMax(s) == [i \in 1..Len(s) |-> MaxSeq(SubSeq(s, 1, i))]

Positions(seq, x) == {i \in 1..Len(seq) : seq[i] = x}

Range(seq) == {seq[i] : i \in 1..Len(seq)}

----------------------------------------------------------------------------
\* pandas frames

Series(idx, vals) == [index |-> idx, values |-> vals]

Frame(idx, cols, data) == [index |-> idx, columns |-> cols, data |-> data]

NoSeries == Series(<<>>, <<>>)

NoFrame == Frame(<<>>, <<>>, <<>>)

\* DataFrame.empty / Series.empty: some axis has length 0
FrameEmpty(df) == Len(df.index) = 0 \/ Len(df.columns) = 0

SeriesEmpty(s) == Len(s.index) = 0

\* positions of the cells kept by a row filter, in order
RECURSIVE KeepRows(_, _)
KeepRows(n, keep) ==
    IF n = 0 THEN <<>>
    ELSE IF n \in keep THEN Append(KeepRows(n - 1, keep), n)
    ELSE KeepRows(n - 1, keep)

TakeRows(df, rows) ==
    Frame([k \in 1..Len(rows) |-> df.index[rows[k]]],
          df.columns,
          [k \in 1..Len(rows) |-> df.data[rows[k]]])

\* DataFrame.dropna(how="all"): drop the rows whose cells are all NaN
DropNaAll(df) ==
    TakeRows(df, KeepRows(Len(df.index),
        {i \in 1..Len(df.index) : \E j \in 1..Len(df.columns) : ~IsNaN(df.data[i][j])}))

\* DataFrame.dropna(): drop the rows holding any NaN
DropNaAny(df) ==
    TakeRows(df, KeepRows(Len(df.index),
        {i \in 1..Len(df.index) : \A j \in 1..Len(df.columns) : ~IsNaN(df.data[i][j])}))

\* Series.dropna()
SeriesDropNa(s) ==
    LET rows == KeepRows(Len(s.index), {i \in 1..Len(s.index) : ~IsNaN(s.values[i])})
    IN  Series([k \in 1..Len(rows) |-> s.index[rows[k]]],
               [k \in 1..Len(rows) |-> s.values[rows[k]]])

\* pct_change of a sequence: first entry NaN, then (x[i] - x[i-1]) / x[i-1].
\* (Columns of the model's tables are gap-free or entirely NaN, so pandas'
\* fill_method makes no difference.)
PctChangeSeq(x) ==
    [i \in 1..Len(x) |-> IF i = 1 THEN NaN ELSE Div(Sub(x[i], x[i - 1]), x[i - 1])]

Column(df, j) == [i \in 1..Len(df.index) |-> df.data[i][j]]

\* DataFrame.pct_change()
PctChange(df) ==
    Frame(df.index, df.columns,
          [i \in 1..Len(df.index) |->
              [j \in 1..Len(df.columns) |-> PctChangeSeq(Column(df, j))[i]]])

\* Series.pct_change()
SeriesPctChange(s) == Series(s.index, PctChangeSeq(s.values))

\* Week (Monday..Sunday) of a day number, and the Sunday closing a week
WeekOf(d) == (d - 1) \div 7

WeekEnd(w) == 7 * (w + 1)

\* last non-NaN cell of column j among the rows of week w (NaN if none)
LastInWeek(df, j, w) ==
    LET rows == {i \in 1..Len(df.index) : WeekOf(df.index[i]) = w /\ ~IsNaN(df.data[i][j])}
    IN  IF rows = {} THEN NaN
        ELSE df.data[CHOOSE i \in rows : \A k \in rows : k <= i][j]

\* prices.resample("W").last(): one row per week from the first to the
\* last observation, labelled by the week's Sunday
ResampleWeeklyLast(df) ==
    LET n == Len(df.index)
        w0 == WeekOf(df.index[1])
        w1 == WeekOf(df.index[n])
    IN  Frame([k \in 1..(w1 - w0 + 1) |-> WeekEnd(w0 + k - 1)],
              df.columns,
              [k \in 1..(w1 - w0 + 1) |->
                  [j \in 1..Len(df.columns) |-> LastInWeek(df, j, w0 + k - 1)]])

----------------------------------------------------------------------------
\* Call outcomes: a value returned, or an exception raised with its Python
\* class and message

Ok(v) == [status |-> "ok", type |-> "", msg |-> "", value |-> v]

Raise(type, msg) == [status |-> "raised", type |-> type, msg |-> msg, value |-> <<>>]

NoResult ==
    [fn |-> "", args |-> <<>>, status |-> "none", type |-> "", msg |-> "", value |-> <<>>]

\* the record of a call: the routine, its scalar arguments, and its outcome
Called(fn, args, out) ==
    [fn |-> fn, args |-> args, status |-> out.status, type |-> out.type,
     msg |-> out.msg, value |-> out.value]

----------------------------------------------------------------------------
\* core/returns.py

\* compute_returns without the final dropna(how="all")
compute_returns_keep_first(p, frequency) ==
    IF FrameEmpty(p)
    THEN Raise("ValueError", "Price dataframe is empty; cannot compute returns.")
    ELSE IF frequency \notin {"daily", "weekly"}
    THEN Raise("ValueError", "Frequency must be 'daily' or 'weekly'.")
    ELSE LET q == IF frequency = "weekly" THEN ResampleWeeklyLast(p) ELSE p
         IN  Ok(PctChange(q))

compute_returns(p, frequency) ==
    IF FrameEmpty(p)
    THEN Raise("ValueError", "Price dataframe is empty; cannot compute returns.")
    ELSE IF frequency \notin {"daily", "weekly"}
    THEN Raise("ValueError", "Frequency must be 'daily' or 'weekly'.")
    ELSE LET q == IF frequency = "weekly" THEN ResampleWeeklyLast(p) ELSE p
         IN  Ok(DropNaAll(PctChange(q)))

\* (1 + x).cumprod() of a sequence: NaN entries stay NaN and are skipped
CumProd1p(x) ==
    [i \in 1..Len(x) |->
        IF IsNaN(x[i]) THEN NaN
        ELSE LET rows == KeepRows(i, {k \in 1..i : ~IsNaN(x[k])})
             IN  ProdSeq([k \in 1..Len(rows) |-> Add(Num(1), x[rows[k]])])]

\* cumulative_returns on a Series
cumulative_returns(r) == Series(r.index, CumProd1p(r.values))

\* cumulative_returns on a DataFrame (column by column)
cumulative_returns_frame(df) ==
    Frame(df.index, df.columns,
          [i \in 1..Len(df.index) |->
              [j \in 1..Len(df.columns) |-> CumProd1p(Column(df, j))[i]]])

----------------------------------------------------------------------------
\* Values: floats obtained through sqrt or a fractional power.
\*   <<"q", r>>           the rational r (NaN included)
\*   <<"sqrt", r>>        sqrt(r), r > 0 not a perfect square
\*   <<"pow1", b, e>>     b ** e - 1, b # 1
\*   <<"sub", v, r>>      v - r, v not rational, r # 0
\*   <<"div", v, w>>      v / w, not both rational, v # 0
\*   <<"fmt2", v>>        v printed with two decimals, v not rational

VQ(r) == <<"q", r>>

VNaN == VQ(NaN)

VZero == VQ(Num(0))

VIsQ(v) == v[1] = "q"

VIsNaN(v) == VIsQ(v) /\ IsNaN(v[2])

VIsZero(v) == v = VZero

\* integer square root by bisection: the largest k in lo..hi with k * k <= n
RECURSIVE SqrtSearch(_, _, _)
SqrtSearch(n, lo, hi) ==
    IF lo = hi THEN lo
    ELSE LET mid == (lo + hi + 1) \div 2
         IN  IF mid * mid <= n THEN SqrtSearch(n, mid, hi) ELSE SqrtSearch(n, lo, mid - 1)

ISqrt(n) == SqrtSearch(n, 0, IF n < 46340 THEN n ELSE 46340)

IsSquare(n) == ISqrt(n) * ISqrt(n) = n

\* math.sqrt / ** 0.5 of a rational
VSqrt(r) ==
    IF IsNaN(r) \/ r[1] < 0 THEN VNaN
    ELSE IF IsSquare(r[1]) /\ IsSquare(r[2]) THEN VQ(Rat(ISqrt(r[1]), ISqrt(r[2])))
    ELSE <<"sqrt", r>>

\* v * math.sqrt(k) for v >= 0 a rational or a square root, k a positive integer
VTimesSqrt(v, k) ==
    IF VIsNaN(v) THEN VNaN
    ELSE IF VIsQ(v) THEN VSqrt(Mul(Mul(v[2], v[2]), Num(k)))
    ELSE VSqrt(Mul(v[2], Num(k)))

\* b ** e - 1 for numpy floats: nan for a negative base with a
\* non-integral exponent
VPow1(b, e) ==
    IF IsNaN(b) \/ IsNaN(e) THEN VNaN
    ELSE IF b = Num(1) THEN VZero
    ELSE IF b = Num(0) /\ Gt(e, Num(0)) THEN VQ(Num(-1))
    ELSE IF b[1] < 0 /\ e[2] # 1 THEN VNaN
    ELSE IF e = Num(1) THEN VQ(Sub(b, Num(1)))
    ELSE <<"pow1", b, e>>

\* v - r
VSubQ(v, r) ==
    IF VIsNaN(v) \/ IsNaN(r) THEN VNaN
    ELSE IF VIsQ(v) THEN VQ(Sub(v[2], r))
    ELSE IF r = Num(0) THEN v
    ELSE <<"sub", v, r>>

\* v / w for w neither zero nor infinite (the callers guard it); x / nan is nan
VDiv(v, w) ==
    IF VIsNaN(v) \/ VIsNaN(w) THEN VNaN
    ELSE IF VIsQ(v) /\ VIsQ(w) THEN VQ(Div(v[2], w[2]))
    ELSE IF VIsZero(v) THEN VZero
    ELSE <<"div", v, w>>

\* v > 0 and v != 0 for a rational or a square root
VGtZero(v) == IF VIsQ(v) THEN Gt(v[2], Num(0)) ELSE TRUE

VNeZero(v) == IF VIsQ(v) THEN Ne(v[2], Num(0)) ELSE TRUE

\* f"{v * 100:.2f}%" and f"{v:.2f}": the text is determined by the value
\* rounded to two decimals; "nan" for NaN
FormatPct2(v) ==
    IF VIsNaN(v) THEN <<"nan">>
    ELSE IF VIsQ(v) THEN <<"text", RoundTo(Mul(v[2], Num(100)), 100), "%">>
    ELSE <<"fmt2", v, "%">>

Format2(v) ==
    IF VIsNaN(v) THEN <<"nan">>
    ELSE IF VIsQ(v) THEN <<"text", RoundTo(v[2], 100), "">>
    ELSE <<"fmt2", v, "">>

----------------------------------------------------------------------------
\* Series statistics (NaN entries are skipped, as pandas does)

NonNaN(x) ==
    LET rows == KeepRows(Len(x), {i \in 1..Len(x) : ~IsNaN(x[i])})
    IN  [k \in 1..Len(rows) |-> x[rows[k]]]

\* Series.mean(): NaN for an empty series
Mean(x) == LET y == NonNaN(x) IN Div(SumSeq(y), Num(Len(y)))

\* sample variance (ddof = 1): NaN for fewer than two observations
Variance(x) ==
    LET y == NonNaN(x)
        m == Mean(y)
    IN  IF Len(y) < 2 THEN NaN
        ELSE Div(SumSeq([i \in 1..Len(y) |-> Mul(Sub(y[i], m), Sub(y[i], m))]),
                 Num(Len(y) - 1))

\* Series.std()
Std(x) == VSqrt(Variance(x))

\* entries of x that are < 0  (portfolio_ret[portfolio_ret < 0])
Negatives(x) ==
    LET rows == KeepRows(Len(x), {i \in 1..Len(x) : Lt(x[i], Num(0))})
    IN  [k \in 1..Len(rows) |-> x[rows[k]]]

\* drawdown of a return sequence: cumprod(1 + r) / cummax - 1
DrawdownSeq(r) ==
    LET c == CumProd1p(r)
        m == CumMax(c)
    IN  [i \in 1..Len(r) |-> Sub(Div(c[i], m[i]), Num(1))]

----------------------------------------------------------------------------
\* core/metrics.py

\* weights.reindex(columns).fillna(0.0)
AlignWeights(w, cols) ==
    [j \in 1..Len(cols) |->
        LET at == Positions(w.index, cols[j])
        IN  IF at = {} \/ IsNaN(w.values[CHOOSE i \in at : TRUE]) THEN Num(0)
            ELSE w.values[CHOOSE i \in at : TRUE]]

\* portfolio_returns pairing weights and columns by position, not by ticker
portfolio_returns_by_position(r, w) ==
    Series(r.index,
           [i \in 1..Len(r.index) |->
               SumSkipNa([j \in 1..Len(r.columns) |->
                   IF j <= Len(w.values) THEN Mul(r.data[i][j], w.values[j]) ELSE Num(0)])])

portfolio_returns(r, w) ==
    LET aligned_weights == AlignWeights(w, r.columns)
    IN  Series(r.index,
               [i \in 1..Len(r.index) |->
                   SumSkipNa([j \in 1..Len(r.columns) |-> Mul(r.data[i][j], aligned_weights[j])])])

performance_metrics(pr, risk_free_rate, periods_per_year) ==
    IF SeriesEmpty(pr) THEN Raise("ValueError", "Portfolio return series is empty.")
    ELSE
    LET x == pr.values
        growth == ProdSeq([i \in 1..Len(NonNaN(x)) |-> Add(Num(1), NonNaN(x)[i])])
        cagr == VPow1(growth, Rat(periods_per_year, Len(x)))
        volatility == VTimesSqrt(Std(x), periods_per_year)
        downside == VTimesSqrt(Std(Negatives(x)), periods_per_year)
        excess_return == VSubQ(cagr, risk_free_rate)
        sharpe == IF VGtZero(volatility) THEN VDiv(excess_return, volatility) ELSE VZero
        sortino == IF VGtZero(downside) THEN VDiv(excess_return, downside) ELSE VZero
        max_drawdown == VQ(MinSeq(DrawdownSeq(x)))
    IN  Ok([CAGR |-> cagr,
            Annual_Volatility |-> volatility,
            Sharpe |-> sharpe,
            Sortino |-> sortino,
            Max_Drawdown |-> max_drawdown])

\* drawdown_curve measured against the first value instead of the running maximum
drawdown_curve_from_first(pr) ==
    LET c == CumProd1p(pr.values)
    IN  Series(pr.index, [i \in 1..Len(c) |-> Sub(Div(c[i], c[1]), Num(1))])

drawdown_curve(pr) == Series(pr.index, DrawdownSeq(pr.values))

----------------------------------------------------------------------------
\* core/risk_contrib.py

\* returns.cov() * periods_per_year: the sample covariance (ddof = 1) of the
\* columns, NaN for fewer than two rows
Cov(r, periods_per_year) ==
    LET n == Len(r.index)
        mean == [j \in 1..Len(r.columns) |-> Mean(Column(r, j))]
        dev == [j \in 1..Len(r.columns) |-> [i \in 1..n |-> Sub(r.data[i][j], mean[j])]]
    IN  [index |-> r.columns,
         data |-> [j \in 1..Len(r.columns) |-> [k \in 1..Len(r.columns) |->
                     IF n < 2 THEN NaN
                     ELSE Mul(Div(SumSeq([i \in 1..n |-> Mul(dev[j][i], dev[k][i])]), Num(n - 1)),
                              Num(periods_per_year))]]]

\* volatility_contributions with the raw products w_i * (cov w)_i as percentages
volatility_contributions_unscaled(w, cov_matrix) ==
    LET aligned_weights == AlignWeights(w, cov_matrix.index)
        n == Len(cov_matrix.index)
        marginal_contrib == [j \in 1..n |->
            SumSeq([k \in 1..n |-> Mul(cov_matrix.data[j][k], aligned_weights[k])])]
        q == [j \in 1..n |-> Mul(aligned_weights[j], marginal_contrib[j])]
        portfolio_var == SumSeq(q)
    IN  IF Le(portfolio_var, Num(0))
        THEN [index |-> cov_matrix.index,
              Contribution |-> [j \in 1..n |-> VZero],
              Pct_Contribution |-> [j \in 1..n |-> VZero]]
        ELSE [index |-> cov_matrix.index,
              Contribution |-> [j \in 1..n |-> VDiv(VQ(q[j]), VSqrt(portfolio_var))],
              Pct_Contribution |-> [j \in 1..n |-> VQ(q[j])]]

\* The contributions are w_i * (cov w)_i / vol with vol = portfolio_var ** 0.5,
\* which need not be rational: their sum is (sum of the products) / vol, and
\* a contribution divided by that sum is the product divided by the sum of
\* the products.  With a NaN variance every contribution is NaN, their sum
\* (NaN skipped) is 0 and the percentages are the contributions themselves.
volatility_contributions(w, cov_matrix) ==
    LET aligned_weights == AlignWeights(w, cov_matrix.index)
        n == Len(cov_matrix.index)
        marginal_contrib == [j \in 1..n |->
            SumSeq([k \in 1..n |-> Mul(cov_matrix.data[j][k], aligned_weights[k])])]
        q == [j \in 1..n |-> Mul(aligned_weights[j], marginal_contrib[j])]
        portfolio_var == SumSeq(q)
        total == SumSkipNa(q)
    IN  IF Le(portfolio_var, Num(0))
        THEN [index |-> cov_matrix.index,
              Contribution |-> [j \in 1..n |-> VZero],
              Pct_Contribution |-> [j \in 1..n |-> VZero]]
        ELSE [index |-> cov_matrix.index,
              Contribution |-> [j \in 1..n |-> VDiv(VQ(q[j]), VSqrt(portfolio_var))],
              Pct_Contribution |-> [j \in 1..n |->
                  IF Ne(total, Num(0)) THEN VQ(Div(q[j], total))
                  ELSE VDiv(VQ(q[j]), VSqrt(portfolio_var))]]

----------------------------------------------------------------------------
\* core/var.py

\* ascending sort of a sequence of finite rationals
RECURSIVE Insert(_, _)
Insert(s, x) ==
    IF s = <<>> THEN <<x>>
    ELSE IF Le(x, Head(s)) THEN <<x>> \o s
    ELSE <<Head(s)>> \o Insert(Tail(s), x)

RECURSIVE SortAsc(_)
SortAsc(s) == IF s = <<>> THEN <<>> ELSE Insert(SortAsc(Tail(s)), Head(s))

\* Series.quantile(alpha): linear interpolation between order statistics
Quantile(x, alpha) ==
    LET y == SortAsc(NonNaN(x))
        pos == Mul(alpha, Num(Len(y) - 1))
        lo == Floor(pos)
        frac == Sub(pos, Num(lo))
    IN  IF Len(y) = 0 THEN NaN
        ELSE IF frac = Num(0) THEN y[lo + 1]
        ELSE Add(y[lo + 1], Mul(frac, Sub(y[lo + 2], y[lo + 1])))

\* portfolio_ret[portfolio_ret <= level]
AtOrBelow(x, level) ==
    LET rows == KeepRows(Len(x), {i \in 1..Len(x) : Le(x[i], level)})
    IN  [k \in 1..Len(rows) |-> x[rows[k]]]

historical_var(pr, alpha) ==
    IF SeriesEmpty(pr) THEN Raise("ValueError", "Portfolio return series is empty.")
    ELSE LET var_level == Quantile(pr.values, alpha)
             cvar_level == Mean(AtOrBelow(pr.values, var_level))
         IN  Ok([VaR |-> VQ(Neg(var_level)), CVaR |-> VQ(Neg(cvar_level))])

\* The normal quantile norm.ppf(alpha) and density norm.pdf(z) are not
\* rational: the Gaussian branch keeps its two results as terms over
\* (mu, sigma, alpha).
parametric_var(pr, alpha) ==
    IF SeriesEmpty(pr) THEN Raise("ValueError", "Portfolio return series is empty.")
    ELSE LET mu == Mean(pr.values)
             sigma == Std(pr.values)
         IN  IF VIsZero(sigma)
             THEN Ok([VaR |-> VQ(Max2(Neg(mu), Num(0))), CVaR |-> VQ(Max2(Neg(mu), Num(0)))])
             ELSE IF VIsNaN(sigma) \/ IsNaN(mu)
             THEN Ok([VaR |-> VNaN, CVaR |-> VNaN])
             ELSE Ok([VaR |-> <<"normal_var", mu, sigma, alpha>>,
                      CVaR |-> <<"normal_cvar", mu, sigma, alpha>>])

----------------------------------------------------------------------------
\* portfolio_engine.py

\* returns * weights: the product frame has a cell only where the column
\* is a label of the weight index; every other column of the union is NaN
\* and is skipped by sum(axis=1).
WeightOf(w, t) ==
    LET at == Positions(w.index, t)
    IN  IF at = {} THEN NaN ELSE w.values[CHOOSE i \in at : TRUE]

MulAlign(r, w) ==
    [i \in 1..Len(r.index) |->
        [j \in 1..Len(r.columns) |-> Mul(r.data[i][j], WeightOf(w, r.columns[j]))]]

compute_portfolio_value(p, w) ==
    LET r == DropNaAny(PctChange(p))
        prod == MulAlign(r, w)
        pr == Series(r.index, [i \in 1..Len(r.index) |-> SumSkipNa(prod[i])])
    IN  Series(pr.index, CumProd1p(pr.values))

calculate_performance_metrics(pv) ==
    LET r == SeriesDropNa(SeriesPctChange(pv))
        n == Len(pv.values)
    IN  IF Len(r.values) = 0
        THEN [Erreur |-> "Aucune donnee de performance disponible."]
        ELSE LET cagr == VPow1(Div(pv.values[n], pv.values[1]), Rat(252, Len(r.values)))
                 vol == VTimesSqrt(Std(r.values), 252)
                 sharpe == IF VNeZero(vol) THEN VDiv(cagr, vol) ELSE VNaN
                 c == CumProd1p(r.values)
                 m == CumMax(c)
                 max_dd == MinSeq([i \in 1..Len(c) |-> Div(Sub(c[i], m[i]), m[i])])
             IN  [CAGR |-> FormatPct2(cagr),
                  Volatilite |-> FormatPct2(vol),
                  Sharpe_Ratio |-> Format2(sharpe),
                  Max_Drawdown |-> FormatPct2(VQ(max_dd))]

\* utils/metrics.py
compute_portfolio_metrics(portfolio_values) ==
    LET r == SeriesDropNa(SeriesPctChange(portfolio_values))
        n == Len(portfolio_values.values)
    IN  IF n = 0 THEN Raise("IndexError", "single positional indexer is out-of-bounds")
        ELSE LET cumulative_return == Sub(Div(portfolio_values.values[n], portfolio_values.values[1]), Num(1))
                 annualized_return == VPow1(Add(Num(1), cumulative_return), Rat(252, n))
                 volatility == VTimesSqrt(Std(r.values), 252)
                 sharpe == IF VNeZero(volatility) THEN VDiv(annualized_return, volatility) ELSE VZero
             IN  Ok([Cumulative_Return |-> FormatPct2(VQ(cumulative_return)),
                     Annualized_Return |-> FormatPct2(annualized_return),
                     Volatility_ann |-> FormatPct2(volatility),
                     Sharpe_Ratio |-> Format2(sharpe)])

----------------------------------------------------------------------------
\* The price provider (yfinance).  The market is the table of adjusted
\* closes the provider holds; a download answers with the columns of the
\* market that were requested, in the market's own column order.

RECURSIVE FilterSeq(_, _)
FilterSeq(s, keep) ==
    IF s = <<>> THEN <<>>
    ELSE IF Head(s) \in keep THEN <<Head(s)>> \o FilterSeq(Tail(s), keep)
    ELSE FilterSeq(Tail(s), keep)

\* df[cols]: the listed columns, in the listed order
SelectColumns(df, cols) ==
    Frame(df.index, cols,
          [i \in 1..Len(df.index) |->
              [j \in 1..Len(cols) |-> df.data[i][CHOOSE k \in Positions(df.columns, cols[j]) : TRUE]]])

\* (an answer without any of the requested tickers is the empty frame)
yf_download(market, tickers) ==
    LET cols == FilterSeq(market.columns, Range(tickers))
    IN  IF cols = <<>> THEN NoFrame ELSE SelectColumns(market, cols)

\* The provider's call may raise instead of answering: such an answer
\* carries the class of the exception in a field `error`.
ProviderDown ==
    [index |-> <<>>, columns |-> <<>>, data |-> <<>>, error |-> "ConnectionError"]

ProviderRaises(market) == "error" \in DOMAIN market

\* the exception of the provider, as it leaves yf.download
ProviderException(market) == Raise(market.error, "HTTPSConnectionPool: Max retries exceeded")

\* one request sent to the provider, and the kind of its answer
Request(market, tickers) ==
    [tickers |-> tickers,
     answer |-> IF ProviderRaises(market) THEN "raised"
                ELSE IF FrameEmpty(yf_download(market, tickers)) THEN "empty"
                ELSE "data"]

\* t.strip().upper() on the ticker texts of the model
StripUpper(t) ==
    CASE t = "a" -> "A"
      [] t = " B" -> "B"
      [] t = " " -> ""
      [] t = "spy" -> "SPY"
      [] t = " QQQ" -> "QQQ"
      [] OTHER -> t

----------------------------------------------------------------------------
\* utils/data_loader.py

\* ensure_valid_tickers walking the table's columns instead of the request
ensure_valid_tickers_by_columns(data, tickers) ==
    LET valid == FilterSeq(data.columns, Range(tickers))
    IN  IF valid = <<>> THEN Raise("ValueError", "No valid tickers found among: tickers")
        ELSE Ok(valid)

ensure_valid_tickers(data, tickers) ==
    LET valid == FilterSeq(tickers, Range(data.columns))
    IN  IF valid = <<>> THEN Raise("ValueError", "No valid tickers found among: tickers")
        ELSE Ok(valid)

----------------------------------------------------------------------------
\* core/data.py

\* DataFrame.ffill()
FFill(df) ==
    Frame(df.index, df.columns,
          [i \in 1..Len(df.index) |->
              [j \in 1..Len(df.columns) |->
                  LET seen == {k \in 1..i : ~IsNaN(df.data[k][j])}
                  IN  IF seen = {} THEN NaN
                      ELSE df.data[CHOOSE k \in seen : \A m \in seen : m <= k][j]]])

\* the "Adj Close" table of the download, columns named by the tickers
extract_adjusted_close(data, tickers) ==
    IF FrameEmpty(data)
    THEN Raise("ValueError", "No market data retrieved for the provided tickers.")
    ELSE IF Len(tickers) = 1
    THEN Ok(Frame(data.index, <<tickers[1]>>, [i \in 1..Len(data.index) |-> <<data.data[i][Len(data.columns)]>>]))
    ELSE Ok(data)

\* the requests download_adjusted_prices sends: none when no ticker is left
download_adjusted_prices_requests(market, tickers) ==
    LET stripped == [i \in 1..Len(tickers) |-> StripUpper(tickers[i])]
        kept == KeepRows(Len(tickers), {i \in 1..Len(tickers) : stripped[i] # ""})
        clean_tickers == [k \in 1..Len(kept) |-> stripped[kept[k]]]
    IN  IF clean_tickers = <<>> THEN <<>> ELSE <<Request(market, clean_tickers)>>

download_adjusted_prices(market, tickers) ==
    LET stripped == [i \in 1..Len(tickers) |-> StripUpper(tickers[i])]
        kept == KeepRows(Len(tickers), {i \in 1..Len(tickers) : stripped[i] # ""})
        clean_tickers == [k \in 1..Len(kept) |-> stripped[kept[k]]]
    IN  IF clean_tickers = <<>>
        THEN Raise("ValueError", "Please provide at least one valid ticker symbol.")
        ELSE IF ProviderRaises(market) THEN ProviderException(market)
        ELSE LET ext == extract_adjusted_close(yf_download(market, clean_tickers), clean_tickers)
             IN  IF ext.status = "raised" THEN ext
                 ELSE LET p == DropNaAll(FFill(ext.value))
                      IN  IF FrameEmpty(p)
                          THEN Raise("ValueError", "Price series is empty after cleaning. Check tickers or dates.")
                          ELSE Ok(p)

----------------------------------------------------------------------------
\* utils/data_loader.py: the cached download

\* handle_network_error on the exception of the provider
handle_network_error(exc) ==
    IF exc.type \in {"ConnectionError", "Timeout", "HTTPError", "URLError", "SSLError", "ProxyError"}
    THEN "Network issue detected while retrieving data. Please check your connection or try again in a few minutes."
    ELSE exc.msg

\* DataFrame.dropna(axis=1, how="all"): drop the columns whose cells are all NaN
DropNaColumns(df) ==
    LET cols == KeepRows(Len(df.columns),
            {j \in 1..Len(df.columns) : \E i \in 1..Len(df.index) : ~IsNaN(df.data[i][j])})
    IN  Frame(df.index, [k \in 1..Len(cols) |-> df.columns[cols[k]]],
              [i \in 1..Len(df.index) |-> [k \in 1..Len(cols) |-> df.data[i][cols[k]]]])

\* the body of _download_price_data_cached, run when the cache has no
\* entry for the request
download_price_data_miss(market, tickers) ==
    IF ProviderRaises(market)
    THEN Raise("ValueError", handle_network_error(ProviderException(market)))
    ELSE IF FrameEmpty(yf_download(market, tickers))
    THEN Raise("ValueError", "No market data retrieved for the provided tickers. This is often caused by a temporary Yahoo Finance/network restriction.")
    ELSE Ok(DropNaColumns(extract_adjusted_close(yf_download(market, tickers), tickers).value))

\* @lru_cache(maxsize=16)
maxsize == 16

\* A DataFrame object: the table and the identity of the object holding it
TableObject(id, df) == [id |-> id, index |-> df.index, columns |-> df.columns, data |-> df.data]

\* the position of the entry of a key in the cache, 0 when it has none
CachePosition(c, key) ==
    IF \E i \in 1..Len(c) : c[i].key = key
    THEN CHOOSE i \in 1..Len(c) : c[i].key = key
    ELSE 0

\* the identity of a new object: the first one no live object carries
FreshId(c, held) ==
    LET live == {c[i].table.id : i \in 1..Len(c)} \cup held
    IN  CHOOSE n \in 1..(Cardinality(live) + 1) :
            n \notin live /\ \A m \in 1..(n - 1) : m \in live

\* the same with a cache that forgets in the order of arrival: a hit leaves
\* its entry where it is
download_price_data_first_in_first_out(c, held, market, tickers) ==
    LET i == CachePosition(c, tickers)
        out == download_price_data_miss(market, tickers)
        table == TableObject(FreshId(c, held), out.value)
        kept == IF Len(c) >= maxsize THEN Tail(c) ELSE c
    IN  IF i > 0
        THEN [out |-> Ok(c[i].table), cache |-> c, requests |-> <<>>]
        ELSE IF out.status = "raised"
        THEN [out |-> out, cache |-> c, requests |-> <<Request(market, tickers)>>]
        ELSE [out |-> Ok(table),
              cache |-> Append(kept, [key |-> tickers, table |-> table]),
              requests |-> <<Request(market, tickers)>>]

\* download_price_data through _download_price_data_cached with the cache c
\* (oldest entry first) while the caller's objects `held` are alive: the
\* outcome, the cache after the call and the requests sent.  The key is
\* tuple(tickers); start, end and period keep their defaults.  A hit
\* returns the cached object itself and makes its entry the most recent; a
\* miss that raises stores nothing; a miss that returns stores the new
\* object, evicting the least recently used entry of a full cache.
download_price_data(c, held, market, tickers) ==
    LET i == CachePosition(c, tickers)
        out == download_price_data_miss(market, tickers)
        table == TableObject(FreshId(c, held), out.value)
        kept == IF Len(c) >= maxsize THEN Tail(c) ELSE c
    IN  IF i > 0
        THEN [out |-> Ok(c[i].table),
              cache |-> Append(SubSeq(c, 1, i - 1) \o SubSeq(c, i + 1, Len(c)), c[i]),
              requests |-> <<>>]
        ELSE IF out.status = "raised"
        THEN [out |-> out, cache |-> c, requests |-> <<Request(market, tickers)>>]
        ELSE [out |-> Ok(table),
              cache |-> Append(kept, [key |-> tickers, table |-> table]),
              requests |-> <<Request(market, tickers)>>]

----------------------------------------------------------------------------
\* pages/risk_lab.py

load_prices(market, tickers) ==
    LET dl == download_adjusted_prices(market, tickers)
    IN  IF dl.status = "raised" THEN dl
        ELSE LET available == FilterSeq(tickers, Range(dl.value.columns))
             IN  IF available = <<>>
                 THEN Raise("ValueError", "None of the requested tickers returned price data.")
                 ELSE Ok(SelectColumns(dl.value, available))

----------------------------------------------------------------------------
\* Allocation frames.  An allocation DataFrame is kept as its "Ticker"
\* column and its one numeric column, named by `column`; the descriptive
\* columns ("Classe", "Invested") take no part in a backtest.

AllocFrame(column, tickers, values) == [column |-> column, Ticker |-> tickers, values |-> values]

NoAlloc == AllocFrame("", <<>>, <<>>)

\* A Python dict in insertion order: a sequence of <<key, value>> pairs
DictHas(d, k) == \E i \in 1..Len(d) : d[i][1] = k

DictGet(d, k, default) ==
    IF DictHas(d, k) THEN d[CHOOSE i \in 1..Len(d) : d[i][1] = k][2] ELSE default

DictSet(d, k, v) ==
    IF DictHas(d, k) THEN [i \in 1..Len(d) |-> IF d[i][1] = k THEN <<k, v>> ELSE d[i]]
    ELSE Append(d, <<k, v>>)

DictPop(d, k) ==
    LET rows == KeepRows(Len(d), {i \in 1..Len(d) : d[i][1] # k})
    IN  [j \in 1..Len(rows) |-> d[rows[j]]]

DictKeys(d) == [i \in 1..Len(d) |-> d[i][1]]

----------------------------------------------------------------------------
\* core/stress.py

ScenarioShocks ==
    << <<"Equity sell-off (-15%)", Rat(-15, 100)>>,
       <<"Mild pullback (-5%)", Rat(-5, 100)>>,
       <<"Risk-on rally (+8%)", Rat(8, 100)>>,
       <<"Defensive drift (+2%)", Rat(2, 100)>> >>

default_stress_scenarios(tickers) ==
    [k \in 1..Len(ScenarioShocks) |->
        <<ScenarioShocks[k][1], [i \in 1..Len(tickers) |-> <<tickers[i], ScenarioShocks[k][2]>>]>>]

\* evaluate_stress_scenarios summing the aligned shocks without the weights
evaluate_stress_scenarios_unweighted(w, scenarios) ==
    [k \in 1..Len(scenarios) |->
        [Scenario |-> scenarios[k][1],
         Estimated_Impact |->
            SumSkipNa([i \in 1..Len(w.index) |-> DictGet(scenarios[k][2], w.index[i], Num(0))])]]

evaluate_stress_scenarios(w, scenarios) ==
    [k \in 1..Len(scenarios) |->
        LET aligned_shocks == [i \in 1..Len(w.index) |-> DictGet(scenarios[k][2], w.index[i], Num(0))]
        IN  [Scenario |-> scenarios[k][1],
             Estimated_Impact |->
                SumSkipNa([i \in 1..Len(w.index) |-> Mul(aligned_shocks[i], w.values[i])])]]

----------------------------------------------------------------------------
\* core/etf_analysis.py

\* the median of a non-empty sequence of numbers
Median(x) ==
    LET y == SortAsc(x)
        h == Len(y) \div 2
    IN  IF Len(y) % 2 = 1 THEN y[h + 1] ELSE Div(Add(y[h], y[h + 1]), Num(2))

\* _annualization_factor: 52 when the median spacing of the dates exceeds
\* four days, else 252
annualization_factor(index) ==
    IF Len(index) > 1
          /\ Gt(Median([i \in 1..(Len(index) - 1) |-> Num(index[i + 1] - index[i])]), Num(4))
    THEN 52 ELSE 252

\* pd.concat([a, b], axis=1, join="inner").dropna(): the dates of both
\* series where both hold a value
InnerJoinDates(a, b) ==
    LET both == KeepRows(Len(a.index),
            {i \in 1..Len(a.index) :
                /\ ~IsNaN(a.values[i])
                /\ \E k \in 1..Len(b.index) : b.index[k] = a.index[i] /\ ~IsNaN(b.values[k])})
    IN  [k \in 1..Len(both) |-> a.index[both[k]]]

ValueAt(a, date) == a.values[CHOOSE i \in 1..Len(a.index) : a.index[i] = date]

\* compute_tracking_metrics reading the difference as zero on an empty join
compute_tracking_metrics_zero_default(etf_returns, benchmark_returns) ==
    LET dates == InnerJoinDates(etf_returns, benchmark_returns)
        diff == [k \in 1..Len(dates) |->
                    Sub(ValueAt(etf_returns, dates[k]), ValueAt(benchmark_returns, dates[k]))]
        factor == annualization_factor(dates)
    IN  IF dates = <<>>
        THEN [tracking_difference |-> VZero, tracking_error |-> VZero]
        ELSE [tracking_difference |-> VQ(Mul(Mean(diff), Num(factor))),
              tracking_error |-> VTimesSqrt(Std(diff), factor)]

compute_tracking_metrics(etf_returns, benchmark_returns) ==
    LET dates == InnerJoinDates(etf_returns, benchmark_returns)
        diff == [k \in 1..Len(dates) |->
                    Sub(ValueAt(etf_returns, dates[k]), ValueAt(benchmark_returns, dates[k]))]
        factor == annualization_factor(dates)
    IN  IF dates = <<>>
        THEN [tracking_difference |-> VNaN, tracking_error |-> VNaN]
        ELSE [tracking_difference |-> VQ(Mul(Mean(diff), Num(factor))),
              tracking_error |-> VTimesSqrt(Std(diff), factor)]

\* liquidity_proxies on a table of one price column and, when has_volume,
\* a "Volume" column after it
liquidity_proxies(price_df) ==
    IF FrameEmpty(price_df)
    THEN [average_volume |-> VNaN, volatility_proxy |-> VNaN, zero_return_pct |-> VNaN]
    ELSE
    LET volume_cols == KeepRows(Len(price_df.columns),
            {j \in 1..Len(price_df.columns) : price_df.columns[j] = "Volume"})
        price_cols == KeepRows(Len(price_df.columns),
            {j \in 1..Len(price_df.columns) : price_df.columns[j] # "Volume"})
        price_series == Column(price_df, IF price_cols # <<>> THEN price_cols[1] ELSE 1)
        r == NonNaN(PctChangeSeq(price_series))
        zeros == {i \in 1..Len(r) : Lt(r[i], Rat(1, 1000000000)) /\ Gt(r[i], Rat(-1, 1000000000))}
    IN  [average_volume |->
            IF volume_cols = <<>> THEN VNaN ELSE VQ(Mean(Column(price_df, volume_cols[1]))),
         volatility_proxy |->
            IF r = <<>> THEN VNaN ELSE VTimesSqrt(Std(r), annualization_factor(price_df.index)),
         zero_return_pct |->
            IF r = <<>> THEN VNaN ELSE VQ(Rat(Cardinality(zeros), Len(r)))]

\* v < q and v > q for a float v that is a rational or a square root
VLtQ(v, q) ==
    IF VIsQ(v) THEN Lt(v[2], q)
    ELSE Gt(q, Num(0)) /\ Lt(v[2], Mul(q, q))

VGtQ(v, q) ==
    IF VIsQ(v) THEN Gt(v[2], q)
    ELSE Lt(q, Num(0)) \/ Gt(v[2], Mul(q, q))

\* metrics_dict.get(key) is not None and not np.isnan(...)
Defined(metrics_dict, key) ==
    DictHas(metrics_dict, key) /\ ~VIsNaN(DictGet(metrics_dict, key, VNaN))

\* portfolio_fit_summary asking for the liquidity before the drawdown
portfolio_fit_summary_liquidity_first(metrics_dict) ==
    LET te == DictGet(metrics_dict, "tracking_error", VNaN)
        vol == DictGet(metrics_dict, "volatility", VNaN)
        dd == DictGet(metrics_dict, "max_drawdown", VNaN)
        liquidity == DictGet(metrics_dict, "average_volume", VNaN)
    IN  IF Defined(metrics_dict, "tracking_error") /\ VLtQ(te, Rat(3, 100))
        THEN IF Defined(metrics_dict, "volatility") /\ VLtQ(vol, Rat(15, 100))
             THEN "core allocation"
             ELSE "beta exposure with tight tracking"
        ELSE IF Defined(metrics_dict, "average_volume") /\ VLtQ(liquidity, Num(100000))
        THEN "niche sleeve with limited liquidity"
        ELSE IF Defined(metrics_dict, "max_drawdown") /\ VGtQ(dd, Rat(-10, 100))
        THEN "defensive diversifier"
        ELSE IF Defined(metrics_dict, "volatility") /\ VGtQ(vol, Rat(25, 100))
        THEN "risk amplifier"
        ELSE "satellite position"

portfolio_fit_summary(metrics_dict) ==
    LET te == DictGet(metrics_dict, "tracking_error", VNaN)
        vol == DictGet(metrics_dict, "volatility", VNaN)
        dd == DictGet(metrics_dict, "max_drawdown", VNaN)
        liquidity == DictGet(metrics_dict, "average_volume", VNaN)
    IN  IF Defined(metrics_dict, "tracking_error") /\ VLtQ(te, Rat(3, 100))
        THEN IF Defined(metrics_dict, "volatility") /\ VLtQ(vol, Rat(15, 100))
             THEN "core allocation"
             ELSE "beta exposure with tight tracking"
        ELSE IF Defined(metrics_dict, "max_drawdown") /\ VGtQ(dd, Rat(-10, 100))
        THEN "defensive diversifier"
        ELSE IF Defined(metrics_dict, "average_volume") /\ VLtQ(liquidity, Num(100000))
        THEN "niche sleeve with limited liquidity"
        ELSE IF Defined(metrics_dict, "volatility") /\ VGtQ(vol, Rat(25, 100))
        THEN "risk amplifier"
        ELSE "satellite position"

\* the rows of a date index within [lo, hi]  (index.loc[lo:hi])
RowsBetween(index, lo, hi) ==
    KeepRows(Len(index), {i \in 1..Len(index) : lo <= index[i] /\ index[i] <= hi})

\* one pass of the loop of stress_metrics: the row of the window
\* <<name, start, end>>, or nothing when no return is dated within it
stress_row(r, growth, window) ==
    LET n == Len(r.index)
        start == window[2]
        end == window[3]
        period_returns == RowsBetween(r.index, start, end)
        pre_window == KeepRows(n, {i \in 1..n : r.index[i] <= start})
        start_value == IF pre_window # <<>> THEN growth[pre_window[Len(pre_window)]]
                       ELSE growth[1]
        segment_growth == [k \in 1..Len(period_returns) |->
                              Div(growth[period_returns[k]], start_value)]
        peak == CumMax(segment_growth)
        drawdown_series == [k \in 1..Len(segment_growth) |->
                               Sub(Div(segment_growth[k], peak[k]), Num(1))]
        post_period == KeepRows(n, {i \in 1..n : r.index[i] >= end})
        recovered == KeepRows(n, {i \in 1..n :
                         r.index[i] >= end /\ Le(start_value, growth[i])})
    IN  IF period_returns = <<>> THEN <<>>
        ELSE <<[Scenario |-> window[1],
                Drawdown |-> VQ(MinSeq(drawdown_series)),
                Recovery_Days |->
                    IF post_period # <<>> /\ recovered # <<>>
                    THEN VQ(Num(r.index[recovered[1]]
                                - r.index[period_returns[Len(period_returns)]]))
                    ELSE VNaN]>>

RECURSIVE stress_rows(_, _, _)
stress_rows(r, growth, stress_periods) ==
    IF stress_periods = <<>> THEN <<>>
    ELSE stress_row(r, growth, Head(stress_periods))
            \o stress_rows(r, growth, Tail(stress_periods))

\* stress_metrics: stress_periods is the dict of named windows, in order,
\* each <<name, start, end>>; the table is its columns and its rows
stress_metrics(r, stress_periods) ==
    IF SeriesEmpty(r) \/ stress_periods = <<>>
    THEN [columns |-> <<"Scenario", "Drawdown", "Recovery Days">>, rows |-> <<>>]
    ELSE LET metrics == stress_rows(r, CumProd1p(r.values), stress_periods)
         IN  [columns |-> IF metrics = <<>> THEN <<>>
                          ELSE <<"Scenario", "Drawdown", "Recovery Days">>,
              rows |-> metrics]

----------------------------------------------------------------------------
\* config/assumptions.py and gpt_allocation.py

RISK_LEVELS == <<"Very Low", "Low", "Moderate", "High", "Very High">>

INVESTMENT_HORIZONS ==
    <<"Short (<3 years)", "Medium (3-5 years)", "Long (5-10 years)", "Very Long (>10 years)">>

BASE_ALLOCATIONS(risk) ==
    CASE risk = "Very Low" ->
            << <<"SPY", 10>>, <<"QQQ", 0>>, <<"VTI", 10>>, <<"AGG", 65>>, <<"GLDM", 15>> >>
      [] risk = "Low" ->
            << <<"SPY", 20>>, <<"QQQ", 5>>, <<"VTI", 20>>, <<"AGG", 45>>, <<"GLDM", 10>> >>
      [] risk = "Moderate" ->
            << <<"SPY", 35>>, <<"QQQ", 15>>, <<"VTI", 20>>, <<"AGG", 20>>, <<"GLDM", 5>>,
               <<"BTC-USD", 5>> >>
      [] risk = "High" ->
            << <<"SPY", 35>>, <<"QQQ", 25>>, <<"VTI", 15>>, <<"AGG", 10>>, <<"GLDM", 5>>,
               <<"BTC-USD", 10>> >>
      [] risk = "Very High" ->
            << <<"SPY", 30>>, <<"QQQ", 35>>, <<"VTI", 10>>, <<"AGG", 5>>, <<"GLDM", 5>>,
               <<"BTC-USD", 15>> >>

\* `word in horizon` (substring test) on the configured horizon texts
Contains(horizon, word) ==
    CASE word = "Short" -> horizon = "Short (<3 years)"
      [] word = "Medium" -> horizon = "Medium (3-5 years)"
      [] word = "Long" -> horizon \in {"Long (5-10 years)", "Very Long (>10 years)"}
      [] word = "Very Long" -> horizon = "Very Long (>10 years)"
      [] OTHER -> FALSE

\* the allocation dict after the horizon adjustment
HorizonAdjusted(alloc, horizon) ==
    IF Contains(horizon, "Short")
    THEN LET a1 == DictSet(alloc, "AGG", DictGet(alloc, "AGG", 0) + 15)
             a2 == DictSet(a1, "SPY", DictGet(a1, "SPY", 0) - 5)
             q == DictGet(a2, "QQQ", 0) - 10
             a3 == DictSet(a2, "QQQ", IF q > 0 THEN q ELSE 0)
         IN  DictSet(a3, "BTC-USD", 0)
    ELSE IF Contains(horizon, "Medium")
    THEN LET a1 == DictSet(alloc, "AGG", DictGet(alloc, "AGG", 0) + 5)
         IN  DictSet(a1, "SPY", DictGet(a1, "SPY", 0) - 5)
    ELSE IF Contains(horizon, "Long")
    THEN DictSet(alloc, "QQQ", DictGet(alloc, "QQQ", 0) + 5)
    ELSE IF Contains(horizon, "Very Long")
    THEN LET a1 == DictSet(alloc, "QQQ", DictGet(alloc, "QQQ", 0) + 10)
         IN  DictSet(a1, "BTC-USD", DictGet(a1, "BTC-USD", 0) + 5)
    ELSE alloc

generate_portfolio_allocation(risk, horizon, esg) ==
    LET adjusted == HorizonAdjusted(BASE_ALLOCATIONS(risk), horizon)
        alloc == IF esg /\ DictHas(adjusted, "BTC-USD") THEN DictPop(adjusted, "BTC-USD")
                 ELSE adjusted
        total == SumSeq([i \in 1..Len(alloc) |-> Num(alloc[i][2])])
    IN  AllocFrame("Allocation (%)", DictKeys(alloc),
                   [i \in 1..Len(alloc) |->
                       RoundTo(Mul(Div(Num(alloc[i][2]), total), Num(100)), 100)])

----------------------------------------------------------------------------
\* app.py: the rule-based allocation of the main page

\* the (ticker, weight) lines of a profile, weights in hundredths
BaseLines(risk_level, horizon) ==
    IF risk_level = "low"
    THEN IF horizon = "short"
         THEN << <<"AGG", 45>>, <<"BND", 35>>, <<"GLDM", 20>> >>
         ELSE IF horizon = "medium"
         THEN << <<"AGG", 40>>, <<"BND", 30>>, <<"GLDM", 20>>, <<"SPY", 10>> >>
         ELSE << <<"AGG", 35>>, <<"BND", 25>>, <<"GLDM", 20>>, <<"SPY", 20>> >>
    ELSE IF risk_level = "moderate"
    THEN IF horizon = "short"
         THEN << <<"SPY", 30>>, <<"VTI", 20>>, <<"AGG", 30>>, <<"GLDM", 20>> >>
         ELSE IF horizon = "medium"
         THEN << <<"SPY", 35>>, <<"VTI", 25>>, <<"AGG", 25>>, <<"GLDM", 10>>, <<"BTC-USD", 5>> >>
         ELSE << <<"SPY", 35>>, <<"QQQ", 20>>, <<"VTI", 20>>, <<"AGG", 15>>, <<"GLDM", 5>>,
                 <<"BTC-USD", 5>> >>
    ELSE IF horizon = "short"
         THEN << <<"SPY", 35>>, <<"QQQ", 30>>, <<"GLDM", 15>>, <<"BTC-USD", 20>> >>
         ELSE IF horizon = "medium"
         THEN << <<"QQQ", 35>>, <<"SPYG", 20>>, <<"VTI", 20>>, <<"GLDM", 10>>, <<"BTC-USD", 15>> >>
         ELSE << <<"QQQ", 40>>, <<"SPYG", 20>>, <<"VTI", 15>>, <<"GLDM", 10>>, <<"BTC-USD", 15>> >>

esg_replacements(ticker) ==
    CASE ticker \in {"SPY", "VTI"} -> "ESGV"
      [] ticker \in {"AGG", "BND"} -> "SUSB"
      [] OTHER -> ticker

\* the lines merged per ticker, in order of first appearance
RECURSIVE MergeLines(_, _)
MergeLines(weights_dict, base) ==
    IF base = <<>> THEN weights_dict
    ELSE MergeLines(DictSet(weights_dict, Head(base)[1],
                            DictGet(weights_dict, Head(base)[1], 0) + Head(base)[2]),
                    Tail(base))

\* risk_level.lower()  (the horizon arrives as a lower-case code)
Lower(risk_level) ==
    CASE risk_level = "Low" -> "low"
      [] risk_level = "Moderate" -> "moderate"
      [] risk_level = "High" -> "high"
      [] OTHER -> risk_level

build_rule_based_allocation(risk_level, horizon, esg) ==
    LET lines == BaseLines(Lower(risk_level), horizon)
        base == IF esg THEN [i \in 1..Len(lines) |-> <<esg_replacements(lines[i][1]), lines[i][2]>>]
                ELSE lines
        merged == MergeLines(<<>>, base)
        total_w == SumSeq([i \in 1..Len(merged) |-> Rat(merged[i][2], 100)])
    IN  IF Le(total_w, Num(0))
        THEN Raise("ValueError", "Total weight is zero, allocation rule error.")
        ELSE Ok(AllocFrame("Weight", DictKeys(merged),
                           [i \in 1..Len(merged) |->
                               RoundTo(Div(Rat(merged[i][2], 100), total_w), 10000)]))

\* the horizon code the main page derives from the selected text
HorizonCode(horizon) ==
    CASE horizon = "Short (<2 years)" -> "short"
      [] horizon = "Medium (2-5 years)" -> "medium"
      [] OTHER -> "long"

----------------------------------------------------------------------------
\* pages/risk_lab.py: the manual portfolio input.  A text field is kept as
\* the sequence of its comma-separated pieces.

\* float(w.replace("%", "").strip()) on the weight texts of the model
ParseFloat(w) ==
    CASE w = "0.7" -> Ok(Rat(7, 10))
      [] w = "0.3" -> Ok(Rat(3, 10))
      [] w = " 0.5" -> Ok(Rat(1, 2))
      [] w = "70" -> Ok(Num(70))
      [] w = "30%" -> Ok(Num(30))
      [] w = "1.5" -> Ok(Rat(3, 2))
      [] w = "-0.5" -> Ok(Rat(-1, 2))
      [] w = "0" -> Ok(Num(0))
      [] OTHER -> Raise("ValueError", "could not convert string to float")

parse_manual_inputs(ticker_text, weight_text) ==
    LET stripped == [i \in 1..Len(ticker_text) |-> StripUpper(ticker_text[i])]
        tkept == KeepRows(Len(stripped), {i \in 1..Len(stripped) : stripped[i] # ""})
        tickers == [k \in 1..Len(tkept) |-> stripped[tkept[k]]]
        wkept == KeepRows(Len(weight_text),
                          {i \in 1..Len(weight_text) : weight_text[i] \notin {"", " "}})
        parsed == [k \in 1..Len(wkept) |-> ParseFloat(weight_text[wkept[k]])]
    IN  IF \E k \in 1..Len(parsed) : parsed[k].status = "raised"
        THEN Raise("ValueError",
                   "Weights could not be parsed; please use numbers separated by commas.")
        ELSE IF Len(tickers) # Len(parsed)
        THEN Raise("ValueError", "The number of tickers and weights must match.")
        ELSE LET weight_values == [k \in 1..Len(parsed) |-> parsed[k].value]
                 percentages == weight_values # <<>> /\ Gt(MaxSeq(weight_values), Rat(3, 2))
                 w == IF percentages
                      THEN [k \in 1..Len(weight_values) |-> Div(weight_values[k], Num(100))]
                      ELSE weight_values
                 total == SumSeq(w)
             IN  IF Le(total, Num(0))
                 THEN Raise("ValueError", "Weights must be greater than zero.")
                 ELSE Ok(Series(tickers, [k \in 1..Len(w) |-> Div(w[k], total)]))

----------------------------------------------------------------------------
\* portfolio_engine.py: the backtest of the generator and upload pages

download_data(market, tickers) ==
    IF ProviderRaises(market) THEN ProviderException(market)
    ELSE Ok(DropNaAny(yf_download(market, tickers)))

\* A run of a handler: its outcome and the values its locals held
Run(out, w, p, r, pr, pv) ==
    [out |-> out, weights |-> w, prices |-> p, returns |-> r,
     portfolio_ret |-> pr, portfolio_value |-> pv, requests |-> <<>>]

\* the same run, having sent the requests reqs to the provider
Requested(reqs, run) == [run EXCEPT !.requests = reqs]

Failed(out) == Run(out, NoSeries, NoFrame, NoFrame, NoSeries, NoSeries)

backtest_portfolio(allocation_df, market) ==
    IF allocation_df.column # "Allocation (%)"
    THEN Failed(Raise("KeyError", "Allocation (%)"))
    ELSE
    LET tickers == allocation_df.Ticker
        w == Series(tickers, [i \in 1..Len(tickers) |-> Div(allocation_df.values[i], Num(100))])
        dl == download_data(market, tickers)
    IN  IF dl.status = "raised"
        THEN Requested(<<Request(market, tickers)>>,
                       Run(dl, w, NoFrame, NoFrame, NoSeries, NoSeries))
        ELSE LET p == dl.value
                 r == DropNaAny(PctChange(p))
                 pv == compute_portfolio_value(p, w)
                 benchmark == download_data(market, <<"SPY">>).value
                 out == IF Len(benchmark.index) = 0
                        THEN Raise("IndexError", "single positional indexer is out-of-bounds")
                        ELSE Ok(calculate_performance_metrics(pv))
             IN  Requested(<<Request(market, tickers), Request(market, <<"SPY">>)>>,
                     Run(out, w, p, r,
                         Series(r.index, [i \in 1..Len(r.index) |-> SumSkipNa(MulAlign(r, w)[i])]),
                         pv))

----------------------------------------------------------------------------
\* app.py: the backtest of the main page

download_prices(market, tickers) ==
    IF ProviderRaises(market) THEN ProviderException(market)
    ELSE
    LET data == yf_download(market, tickers)
    IN  IF FrameEmpty(data)
        THEN Raise("ValueError", "Aucune donnee telechargee. Verifie les tickers.")
        ELSE Ok(DropNaAll(data))

\* df.loc[labels]: the rows whose label is in the set
RowsAt(df, labels) ==
    TakeRows(df, KeepRows(Len(df.index), {i \in 1..Len(df.index) : df.index[i] \in labels}))

SeriesRowsAt(x, labels) ==
    LET rows == KeepRows(Len(x.index), {i \in 1..Len(x.index) : x.index[i] \in labels})
    IN  Series([k \in 1..Len(rows) |-> x.index[rows[k]]],
               [k \in 1..Len(rows) |-> x.values[rows[k]]])

run_backtest(allocation_df, market, benchmark) ==
    IF allocation_df.column # "Weight" THEN Failed(Raise("KeyError", "Weight"))
    ELSE
    LET tickers == allocation_df.Ticker
        w == allocation_df.values
        all_tickers == IF benchmark \in Range(tickers) THEN tickers ELSE Append(tickers, benchmark)
        dl == download_prices(market, all_tickers)
    IN  Requested(<<Request(market, all_tickers)>>,
        IF dl.status = "raised" THEN Failed(dl)
        ELSE IF \E i \in 1..Len(tickers) : tickers[i] \notin Range(dl.value.columns)
        THEN Failed(Raise("KeyError", "not in index"))
        ELSE IF benchmark \notin Range(dl.value.columns)
        THEN Failed(Raise("KeyError", benchmark))
        ELSE
        LET p == dl.value
            port_prices == DropNaAll(SelectColumns(p, tickers))
            bm_prices == SeriesDropNa(Series(p.index, Column(SelectColumns(p, <<benchmark>>), 1)))
            port_common == RowsAt(port_prices, Range(bm_prices.index))
            bm_common == SeriesRowsAt(bm_prices, Range(port_prices.index))
            all_returns == DropNaAny(PctChange(port_common))
            all_bm_returns == SeriesDropNa(SeriesPctChange(bm_common))
            daily_returns == RowsAt(all_returns, Range(all_bm_returns.index))
            port_ret == Series(daily_returns.index,
                               [i \in 1..Len(daily_returns.index) |->
                                   SumSkipNa([j \in 1..Len(tickers) |->
                                                Mul(daily_returns.data[i][j], w[j])])])
            port_cum == CumProd1p(port_ret.values)
            nb_days == Len(port_ret.values)
        IN  IF nb_days = 0
            THEN Run(Raise("ValueError", "Pas assez de donnees pour le backtest."),
                     Series(tickers, w), port_common, daily_returns, port_ret,
                     Series(port_ret.index, port_cum))
            ELSE LET cagr == VPow1(port_cum[nb_days], Rat(252, nb_days))
                     vol == VTimesSqrt(Std(port_ret.values), 252)
                     sharpe == IF VGtZero(vol) THEN VDiv(cagr, vol) ELSE VNaN
                     running_max == CumMax(port_cum)
                     max_dd == MinSeq([i \in 1..nb_days |->
                                          Sub(Div(port_cum[i], running_max[i]), Num(1))])
                 IN  Run(Ok([CAGR |-> cagr, Volatilite |-> vol, Sharpe |-> sharpe,
                             Max_Drawdown |-> VQ(max_dd)]),
                         Series(tickers, w), port_common, daily_returns, port_ret,
                         Series(port_ret.index, port_cum)))

\* app.py: the upload section of the main page, from the parsed CSV on
\* (the "Ticker" header of the model's files is always "Ticker")
upload_backtest(df_user, market) ==
    IF df_user.column \notin {"Allocation (%)", "Weight"}
    THEN Failed(Raise("ValueError", "CSV must contain either 'Allocation (%)' or 'Weight' column."))
    ELSE LET weight == IF df_user.column = "Allocation (%)"
                       THEN [i \in 1..Len(df_user.values) |-> Div(df_user.values[i], Num(100))]
                       ELSE df_user.values
             total_w == SumSkipNa(weight)
         IN  IF Le(total_w, Num(0)) THEN Failed(Raise("ValueError", "Sum of weights <= 0."))
             ELSE run_backtest(AllocFrame("Weight", df_user.Ticker,
                                          [i \in 1..Len(weight) |-> Div(weight[i], total_w)]),
                               market, "SPY")

----------------------------------------------------------------------------
\* pages/risk_lab.py: the analysis run by the "Run Risk Lab" button

\* st.error(msg) followed by st.stop()
Stop(msg) == [status |-> "stopped", type |-> "st.error", msg |-> msg, value |-> <<>>]

\* the ticker labels of the model in sorted order (groupby sorts its keys)
SortedLabels == <<"AGG", "QQQ", "SPY">>

\* weights.groupby(level=0).sum()
GroupBySum(w) ==
    LET keys == FilterSeq(SortedLabels, Range(w.index))
    IN  Series(keys,
               [k \in 1..Len(keys) |->
                   SumSkipNa([i \in 1..Len(w.index) |->
                                IF w.index[i] = keys[k] THEN w.values[i] ELSE NaN])])

benchmark_tickers(benchmark) ==
    CASE benchmark = "SPY" -> <<"SPY">>
      [] benchmark = "60/40 (SPY+AGG)" -> <<"SPY", "AGG">>
      [] OTHER -> <<>>

\* list(dict.fromkeys(a + b)) for a without repetition
Union2(a, b) == a \o FilterSeq(b, Range(b) \ Range(a))

\* main() from the portfolio returns on: the metrics and the two VaR figures
main_measures(w, p, r, pr, frequency, alpha, risk_free_rate) ==
    LET periods_per_year == IF frequency = "daily" THEN 252 ELSE 52
        metrics == performance_metrics(pr, risk_free_rate, periods_per_year)
        hist == historical_var(pr, alpha)
        para == parametric_var(pr, alpha)
        out == IF metrics.status = "raised" THEN metrics
               ELSE IF hist.status = "raised" THEN hist
               ELSE IF para.status = "raised" THEN para
               ELSE Ok([metrics |-> metrics.value, historical |-> hist.value,
                        parametric |-> para.value])
    IN  Run(out, w, p, r, pr, cumulative_returns(pr))

\* main() from the price table of the portfolio's tickers on
main_returns(w, p, frequency, alpha, risk_free_rate) ==
    LET r == compute_returns(p, frequency)
    IN  IF FrameEmpty(p)
        THEN Run(Stop("Price data for the selected tickers is empty after cleaning."),
                 w, p, NoFrame, NoSeries, NoSeries)
        ELSE IF r.status = "raised"
        THEN Run(Stop(r.msg), w, p, NoFrame, NoSeries, NoSeries)
        ELSE IF FrameEmpty(r.value)
        THEN Run(Stop("No returns computed for the selected frequency."),
                 w, p, r.value, NoSeries, NoSeries)
        ELSE main_measures(w, p, r.value, portfolio_returns(r.value, w),
                           frequency, alpha, risk_free_rate)

\* main() from the normalised weights on
main_prices(w, frequency, alpha, risk_free_rate, benchmark, market) ==
    LET tickers == w.index
        price_universe == load_prices(market, Union2(tickers, benchmark_tickers(benchmark)))
    IN  Requested(
            download_adjusted_prices_requests(market, Union2(tickers, benchmark_tickers(benchmark))),
            IF price_universe.status = "raised"
            THEN Run(Stop(price_universe.msg), w, NoFrame, NoFrame, NoSeries, NoSeries)
            ELSE main_returns(w,
                              SelectColumns(price_universe.value,
                                            FilterSeq(tickers, Range(price_universe.value.columns))),
                              frequency, alpha, risk_free_rate))

\* weights.groupby(level=0).sum() followed by weights / weights.sum()
Regrouped(weights_in) ==
    LET grouped == GroupBySum(weights_in)
        total == SumSkipNa(grouped.values)
    IN  Series(grouped.index,
               [k \in 1..Len(grouped.index) |-> Div(grouped.values[k], total)])

main(ticker_text, weight_text, frequency, alpha, risk_free_rate, benchmark, market) ==
    LET parsed == parse_manual_inputs(ticker_text, weight_text)
    IN  IF parsed.status = "raised" THEN Failed(Stop(parsed.msg))
        ELSE main_prices(Regrouped(parsed.value), frequency, alpha, risk_free_rate,
                         benchmark, market)

----------------------------------------------------------------------------
\* Inputs of the analytics core

\* the i-th trading day: Thursday 4, Friday 5, Monday 8, ...
BusinessDay(i) == 7 * ((i + 2) \div 5) + ((i + 2) % 5) + 1

PriceLevels == {1, 2}

PriceTablesOver(cols) ==
    UNION {{Frame([i \in 1..n |-> BusinessDay(i)], cols,
                  [i \in 1..n |-> [j \in 1..Len(cols) |-> Num(cell[i][j])]]) :
                cell \in [1..n -> [1..Len(cols) -> PriceLevels]]} : n \in 0..MaxRows}

PriceTables == PriceTablesOver(<<"A">>) \cup PriceTablesOver(<<"A", "B">>)

WeightSeries ==
    { Series(<<"A">>, <<Num(1)>>),
      Series(<<"A", "B">>, <<Rat(1, 2), Rat(1, 2)>>),
      Series(<<"B", "A">>, <<Rat(3, 10), Rat(7, 10)>>),
      Series(<<"A", "C">>, <<Rat(3, 5), Rat(2, 5)>>) }

Frequencies == {"daily", "weekly", "monthly"}

RiskFreeRates == {Num(0), Rat(1, 50)}

Alphas == {Rat(1, 20)}

TickerTexts == {"A", "B", "C", "a", ""}

TickerLists == UNION {[1..n -> TickerTexts] : n \in 0..2}

----------------------------------------------------------------------------
\* The analytics core as a library: each action is one call, made on the
\* outputs of the calls before it (the order in which pages/risk_lab.py and
\* portfolio_engine.py compose them).

EngineInit ==
    /\ prices \in PriceTables
    /\ weights \in WeightSeries
    /\ df_alloc = NoAlloc
    /\ returns = NoFrame
    /\ portfolio_ret = NoSeries
    /\ portfolio_value = NoSeries
    /\ result = NoResult
    /\ requests = <<>>
    /\ cache = <<>>

ComputeReturns ==
    /\ result.status = "none"
    /\ \E frequency \in Frequencies :
        LET out == compute_returns(prices, frequency)
        IN  /\ result' = Called("compute_returns", <<frequency>>, out)
            /\ returns' = IF out.status = "ok" THEN out.value ELSE returns
    /\ UNCHANGED <<requests, cache, df_alloc, weights, prices, portfolio_ret, portfolio_value>>

CumulativeReturnsFrame ==
    /\ result.fn = "compute_returns" /\ result.status = "ok"
    /\ result' = Called("cumulative_returns", <<"returns">>, Ok(cumulative_returns_frame(returns)))
    /\ UNCHANGED <<requests, cache, df_alloc, weights, prices, returns, portfolio_ret, portfolio_value>>

PortfolioReturns ==
    /\ result.fn = "compute_returns" /\ result.status = "ok"
    /\ portfolio_ret' = portfolio_returns(returns, weights)
    /\ result' = Called("portfolio_returns", <<>>, Ok(portfolio_ret'))
    /\ UNCHANGED <<requests, cache, df_alloc, weights, prices, returns, portfolio_value>>

PerformanceMetrics ==
    /\ result.fn = "portfolio_returns"
    /\ \E rf \in RiskFreeRates, periods_per_year \in {252, 52} :
        result' = Called("performance_metrics", <<rf, periods_per_year>>,
                         performance_metrics(portfolio_ret, rf, periods_per_year))
    /\ UNCHANGED <<requests, cache, df_alloc, weights, prices, returns, portfolio_ret, portfolio_value>>

DrawdownCurve ==
    /\ result.fn = "portfolio_returns"
    /\ result' = Called("drawdown_curve", <<>>, Ok(drawdown_curve(portfolio_ret)))
    /\ UNCHANGED <<requests, cache, df_alloc, weights, prices, returns, portfolio_ret, portfolio_value>>

CumulativeReturns ==
    /\ result.fn = "portfolio_returns"
    /\ result' = Called("cumulative_returns", <<"portfolio_ret">>, Ok(cumulative_returns(portfolio_ret)))
    /\ UNCHANGED <<requests, cache, df_alloc, weights, prices, returns, portfolio_ret, portfolio_value>>

HistoricalVar ==
    /\ result.fn = "portfolio_returns"
    /\ \E alpha \in Alphas :
        result' = Called("historical_var", <<alpha>>, historical_var(portfolio_ret, alpha))
    /\ UNCHANGED <<requests, cache, df_alloc, weights, prices, returns, portfolio_ret, portfolio_value>>

ParametricVar ==
    /\ result.fn = "portfolio_returns"
    /\ \E alpha \in Alphas :
        result' = Called("parametric_var", <<alpha>>, parametric_var(portfolio_ret, alpha))
    /\ UNCHANGED <<requests, cache, df_alloc, weights, prices, returns, portfolio_ret, portfolio_value>>

ComputePortfolioValue ==
    /\ result.status = "none"
    /\ portfolio_value' = compute_portfolio_value(prices, weights)
    /\ result' = Called("compute_portfolio_value", <<>>, Ok(portfolio_value'))
    /\ UNCHANGED <<requests, cache, df_alloc, weights, prices, returns, portfolio_ret>>

CalculatePerformanceMetrics ==
    /\ result.fn = "compute_portfolio_value"
    /\ result' = Called("calculate_performance_metrics", <<>>,
                        Ok(calculate_performance_metrics(portfolio_value)))
    /\ UNCHANGED <<requests, cache, df_alloc, weights, prices, returns, portfolio_ret, portfolio_value>>

ComputePortfolioMetrics ==
    /\ result.fn = "compute_portfolio_value"
    /\ result' = Called("compute_portfolio_metrics", <<>>,
                        compute_portfolio_metrics(portfolio_value))
    /\ UNCHANGED <<requests, cache, df_alloc, weights, prices, returns, portfolio_ret, portfolio_value>>

EnsureValidTickers ==
    /\ result.status = "none"
    /\ \E tickers \in TickerLists :
        result' = Called("ensure_valid_tickers", <<tickers>>,
                         ensure_valid_tickers(prices, tickers))
    /\ UNCHANGED <<requests, cache, df_alloc, weights, prices, returns, portfolio_ret, portfolio_value>>

LoadPrices ==
    /\ result.status = "none"
    /\ \E tickers \in TickerLists :
        /\ result' = Called("_load_prices", <<tickers>>, load_prices(prices, tickers))
        /\ requests' = download_adjusted_prices_requests(prices, tickers)
    /\ UNCHANGED <<cache, df_alloc, weights, prices, returns, portfolio_ret, portfolio_value>>

VolatilityContributions ==
    /\ result.fn = "compute_returns" /\ result.status = "ok"
    /\ \E periods_per_year \in {252, 52} :
        \E cov_matrix \in {Cov(returns, periods_per_year)} :
            result' = Called("volatility_contributions", <<cov_matrix>>,
                             Ok(volatility_contributions(weights, cov_matrix)))
    /\ UNCHANGED <<requests, cache, df_alloc, weights, prices, returns, portfolio_ret, portfolio_value>>

\* scenario sets: the default ones for the tickers of the weight vector, and
\* one whose shock maps miss a weighted ticker and shock tickers without weight
ScenarioSets ==
    { default_stress_scenarios(weights.index),
      << <<"A only", <<<<"A", Rat(-1, 10)>>>>>>,
         <<"others", <<<<"Z", Rat(1, 2)>>, <<"B", Rat(-1, 5)>>>>>>,
         <<"nothing", <<>>>> >> }

EvaluateStressScenarios ==
    /\ result.status = "none"
    /\ \E scenarios \in ScenarioSets :
        result' = Called("evaluate_stress_scenarios", <<scenarios>>,
                         Ok(evaluate_stress_scenarios(weights, scenarios)))
    /\ UNCHANGED <<requests, cache, df_alloc, weights, prices, returns, portfolio_ret, portfolio_value>>

EngineNext ==
    \/ ComputeReturns
    \/ CumulativeReturnsFrame
    \/ PortfolioReturns
    \/ PerformanceMetrics
    \/ DrawdownCurve
    \/ CumulativeReturns
    \/ HistoricalVar
    \/ ParametricVar
    \/ ComputePortfolioValue
    \/ CalculatePerformanceMetrics
    \/ ComputePortfolioMetrics
    \/ EnsureValidTickers
    \/ LoadPrices
    \/ VolatilityContributions
    \/ EvaluateStressScenarios

SpecEngine == EngineInit /\ [][EngineNext]_vars

----------------------------------------------------------------------------
\* Inputs of the pages

\* What the provider holds when a page asks: for each ticker of the request
\* a gap-free price column, or no data (then the ticker's column is missing
\* from the answer, or present and entirely NaN).
PriceShapes == {"flat", "mixed"}

PriceAt(shape, k, i) == IF shape = "flat" THEN Num(1) ELSE Num(1 + ((i + k) % 2))

SessionLengths == {0, 1, 3}

Market(universe, listed, failed_as, n, shape) ==
    LET cols == IF failed_as = "nan" THEN universe ELSE FilterSeq(universe, listed)
    IN  Frame([i \in 1..n |-> BusinessDay(i)], cols,
              [i \in 1..n |->
                  [j \in 1..Len(cols) |->
                      IF cols[j] \in listed
                      THEN PriceAt(shape, CHOOSE k \in Positions(universe, cols[j]) : TRUE, i)
                      ELSE NaN]])

Markets(universe) ==
    {Market(universe, listed, failed_as, n, shape) :
        listed \in SUBSET Range(universe), failed_as \in {"absent", "nan"},
        n \in SessionLengths, shape \in PriceShapes}
    \cup {ProviderDown}

\* the CSV files of the upload page: the header of the numeric column and the rows
UploadedFiles ==
    { AllocFrame("Allocation (%)", <<"X", "Y">>, <<Num(70), Num(30)>>),
      AllocFrame("allocation (%)", <<"X", "Y">>, <<Num(50), Num(50)>>),
      AllocFrame("Allocation (%)", <<"X">>, <<Num(100)>>),
      AllocFrame("Allocation (%)", <<"X", "Y">>, <<Num(120), Num(-20)>>),
      AllocFrame("Allocation (%)", <<"X", "Y">>, <<Num(0), Num(0)>>),
      AllocFrame(" Weight", <<"X", "Y">>, <<Rat(7, 10), Rat(3, 10)>>),
      AllocFrame("Weight", <<"X", "Y">>, <<Rat(7, 10), Rat(3, 10)>>) }

\* c.strip().capitalize() on the headers of the model
StripCapitalize(c) ==
    CASE c = "allocation (%)" -> "Allocation (%)"
      [] c = " Weight" -> "Weight"
      [] OTHER -> c

\* the two text fields of the Risk Lab sidebar
ManualInputs ==
    { << <<"SPY", " QQQ", "AGG">>, <<"0.7", "0.3", "0">> >>,
      << <<"spy", "AGG">>, <<"70", "30%">> >>,
      << <<"SPY", "spy">>, <<" 0.5", " 0.5">> >>,
      << <<"SPY", "AGG">>, <<"1.5", "-0.5">> >>,
      << <<"SPY", "AGG">>, <<"0", "0">> >>,
      << <<"SPY", "AGG">>, <<"-0.5", "-0.5">> >>,
      << <<"SPY", " ">>, <<"0.7", "">> >>,
      << <<"SPY", "AGG">>, <<"0.7">> >>,
      << <<"SPY">>, <<"abc">> >>,
      << <<>>, <<>> >> }

MainPageRiskLevels == {"Low", "Moderate", "High"}

MainPageHorizons == {"Short (<2 years)", "Medium (2-5 years)", "Long (>5 years)"}

----------------------------------------------------------------------------
\* The pages.  Each action is one run of a page's handler, from the inputs
\* of its widgets to what it displays; Rerun is the script starting over.

Init ==
    /\ df_alloc = NoAlloc
    /\ weights = NoSeries
    /\ prices = NoFrame
    /\ returns = NoFrame
    /\ portfolio_ret = NoSeries
    /\ portfolio_value = NoSeries
    /\ result = NoResult
    /\ requests = <<>>
    /\ cache = <<>>

\* the state a handler leaves behind
Ran(fn, args, alloc, run) ==
    /\ df_alloc' = alloc
    /\ weights' = run.weights
    /\ prices' = run.prices
    /\ returns' = run.returns
    /\ portfolio_ret' = run.portfolio_ret
    /\ portfolio_value' = run.portfolio_value
    /\ result' = Called(fn, args, run.out)
    /\ requests' = run.requests
    /\ UNCHANGED cache

\* pages/portfolio_generator.py: "Generate Portfolio"
PortfolioGeneratorPage ==
    /\ result.status = "none"
    /\ \E risk \in Range(RISK_LEVELS), horizon \in Range(INVESTMENT_HORIZONS), esg \in BOOLEAN :
        LET alloc == generate_portfolio_allocation(risk, horizon, esg)
        IN  \E market \in Markets(Union2(alloc.Ticker, <<"SPY">>)) :
              \E run \in {backtest_portfolio(alloc, market)} :
                Ran("backtest_portfolio", <<"portfolio_generator", risk, horizon, esg>>,
                    alloc, run)

\* pages/backtest.py: a CSV file is uploaded
BacktestPage ==
    /\ result.status = "none"
    /\ \E file \in UploadedFiles :
        LET df_user == AllocFrame(StripCapitalize(file.column), file.Ticker, file.values)
        IN  \E market \in Markets(Union2(df_user.Ticker, <<"SPY">>)) :
              \E run \in {backtest_portfolio(df_user, market)} :
                Ran("backtest_portfolio", <<"backtest", file.column>>, df_user, run)

\* app.py: "Generate Portfolio" on the main page
MainPageGenerate ==
    /\ result.status = "none"
    /\ \E risk_level \in MainPageRiskLevels, horizon \in MainPageHorizons, esg \in BOOLEAN :
        LET built == build_rule_based_allocation(risk_level, HorizonCode(horizon), esg)
        IN  IF built.status = "raised"
            THEN Ran("build_rule_based_allocation", <<risk_level, horizon, esg>>,
                     NoAlloc, Failed(built))
            ELSE \E market \in Markets(Union2(built.value.Ticker, <<"SPY">>)) :
                  \E run \in {run_backtest(built.value, market, "SPY")} :
                    Ran("run_backtest", <<risk_level, horizon, esg>>, built.value, run)

\* app.py: a CSV file is uploaded on the main page
MainPageUpload ==
    /\ result.status = "none"
    /\ \E file \in UploadedFiles :
        \E market \in Markets(Union2(file.Ticker, <<"SPY">>)) :
          \E run \in {upload_backtest(file, market)} :
            Ran("upload_backtest", <<"main page", file.column>>, file, run)

\* pages/risk_lab.py: "Run Risk Lab" with a manual portfolio
RiskLabMain ==
    /\ result.status = "none"
    /\ \E input \in ManualInputs, frequency \in {"daily", "weekly"},
          benchmark \in {"None", "SPY", "60/40 (SPY+AGG)"},
          market \in Markets(<<"SPY", "QQQ", "AGG">>) :
        \E run \in {main(input[1], input[2], frequency, Rat(1, 20), Rat(1, 50),
                          benchmark, market)} :
            Ran("main", <<input[1], input[2], frequency, benchmark>>, NoAlloc, run)

Rerun ==
    /\ result.status # "none"
    /\ df_alloc' = NoAlloc
    /\ weights' = NoSeries
    /\ prices' = NoFrame
    /\ returns' = NoFrame
    /\ portfolio_ret' = NoSeries
    /\ portfolio_value' = NoSeries
    /\ result' = NoResult
    /\ requests' = <<>>
    /\ UNCHANGED cache

Next ==
    \/ BacktestPage
    \/ PortfolioGeneratorPage
    \/ MainPageGenerate
    \/ RiskLabMain
    \/ MainPageUpload
    \/ Rerun

Spec == Init /\ [][Next]_vars

----------------------------------------------------------------------------
\* pages/etf_due_diligence.py

\* _format_pct and _format_number: "N/A" for an undefined value
format_pct(value) == IF VIsNaN(value) THEN <<"N/A">> ELSE FormatPct2(value)

format_number(value) ==
    IF VIsNaN(value) THEN <<"N/A">> ELSE <<"text", RoundTo(value[2], 1), ",">>

\* _fetch_volume.  The provider's answer to the volume request is one of:
\* an exception; an empty table; a table without a "Volume" column; a
\* table with flat columns, whose "Volume" column is returned forward
\* filled; a table with two column levels, where data["Volume"] is a
\* DataFrame and rename("Volume") calls the text as a function.
fetch_volume(answer, index) ==
    CASE answer.shape = "raises" -> Raise("ProviderError", "download failed")
      [] answer.shape \in {"empty", "no volume"} -> Ok(NoSeries)
      [] answer.shape = "multi" -> Raise("TypeError", "'str' object is not callable")
      [] OTHER -> Ok(Series(index, [i \in 1..Len(index) |-> answer.level]))

\* the tables of the page: the tracking and liquidity values, their
\* displayed texts, and the suggested role
dd_display(perf, tracking, liquidity) ==
    [tracking |-> tracking,
     liquidity |-> liquidity,
     Tracking_Difference |-> format_pct(tracking.tracking_difference),
     Tracking_Error |-> format_pct(tracking.tracking_error),
     Average_Daily_Volume |-> format_number(liquidity.average_volume),
     Volatility_Proxy |-> format_pct(liquidity.volatility_proxy),
     Zero_Return_Days |-> format_pct(liquidity.zero_return_pct),
     fit_summary |-> portfolio_fit_summary(
        << <<"tracking_error", tracking.tracking_error>>,
           <<"volatility", perf.Annual_Volatility>>,
           <<"max_drawdown", perf.Max_Drawdown>>,
           <<"average_volume", liquidity.average_volume>> >>)]

\* main from the returns on.  (The stress table, the identity table and the
\* charts read the prices and returns only.)
dd_measures(p, ticker, etf_returns, benchmark_returns, answer) ==
    IF SeriesEmpty(etf_returns)
    THEN Run(Stop("No returns available for the selected parameters."),
             NoSeries, p, NoFrame, etf_returns, NoSeries)
    ELSE LET perf == performance_metrics(etf_returns, Num(0), 252).value
             tracking == IF ~SeriesEmpty(benchmark_returns)
                         THEN compute_tracking_metrics(etf_returns, benchmark_returns)
                         ELSE [tracking_difference |-> VNaN, tracking_error |-> VNaN]
             volume_series == fetch_volume(answer, p.index)
             ticker_prices == SelectColumns(p, <<ticker>>)
             liquidity_input ==
                IF volume_series.status = "ok" /\ ~SeriesEmpty(volume_series.value)
                THEN Frame(p.index, <<ticker, "Volume">>,
                           [i \in 1..Len(p.index) |->
                               <<ticker_prices.data[i][1], volume_series.value.values[i]>>])
                ELSE ticker_prices
             volume_request ==
                [tickers |-> <<ticker>>,
                 answer |-> CASE answer.shape = "raises" -> "raised"
                              [] answer.shape = "empty" -> "empty"
                              [] OTHER -> "data"]
         IN  Requested(<<volume_request>>,
                 IF volume_series.status = "raised"
                 THEN Run(volume_series, NoSeries, p, NoFrame, etf_returns, NoSeries)
                 ELSE Run(Ok(dd_display(perf, tracking, liquidity_proxies(liquidity_input))),
                          NoSeries, p, NoFrame, etf_returns, NoSeries))

\* compute_returns(prices[[column]])[column]
ColumnReturns(p, column) ==
    LET r == compute_returns(SelectColumns(p, <<column>>), "daily").value
    IN  Series(r.index, Column(r, 1))

dd_main(ticker_text, benchmark_text, market, answer) ==
    LET ticker == StripUpper(ticker_text)
        benchmark == StripUpper(benchmark_text)
        dl == download_adjusted_prices(market, <<ticker, benchmark>>)
        sent == download_adjusted_prices_requests(market, <<ticker, benchmark>>)
        measured == dd_measures(dl.value, ticker, ColumnReturns(dl.value, ticker),
                                IF benchmark \in Range(dl.value.columns)
                                THEN ColumnReturns(dl.value, benchmark) ELSE NoSeries,
                                answer)
    IN  IF dl.status = "raised" THEN Requested(sent, Failed(Stop(dl.msg)))
        ELSE IF ticker \notin Range(dl.value.columns)
        THEN Requested(sent,
                 Failed(Stop("ETF price series unavailable. Please try a different ticker or lookback.")))
        ELSE Requested(sent \o measured.requests, measured)

----------------------------------------------------------------------------
\* The ETF due-diligence routines (core/etf_analysis.py) and their page
\* (pages/etf_due_diligence.py)

\* values of one metric: missing (the empty tuple), undefined, and floats on
\* both sides of the thresholds and on them
MetricValues(levels) == {<<>>, VNaN} \cup {VQ(r) : r \in levels}

MetricsDict(te, vol, dd, liquidity) ==
    (IF te = <<>> THEN <<>> ELSE <<<<"tracking_error", te>>>>)
    \o (IF vol = <<>> THEN <<>> ELSE <<<<"volatility", vol>>>>)
    \o (IF dd = <<>> THEN <<>> ELSE <<<<"max_drawdown", dd>>>>)
    \o (IF liquidity = <<>> THEN <<>> ELSE <<<<"average_volume", liquidity>>>>)

PortfolioFitSummary ==
    /\ result.status = "none"
    /\ \E te \in MetricValues({Rat(1, 100), Rat(3, 100), Rat(1, 20)}) \cup {VSqrt(Rat(1, 5000))},
          vol \in MetricValues({Rat(1, 10), Rat(15, 100), Rat(1, 5), Rat(1, 4), Rat(3, 10)})
                    \cup {VSqrt(Rat(1, 10))},
          dd \in MetricValues({Num(0), Rat(-1, 20), Rat(-1, 10), Rat(-1, 2)}),
          liquidity \in MetricValues({Num(50000), Num(100000), Num(200000)}) :
        result' = Called("portfolio_fit_summary", <<MetricsDict(te, vol, dd, liquidity)>>,
                         Ok(portfolio_fit_summary(MetricsDict(te, vol, dd, liquidity))))
    /\ UNCHANGED <<requests, cache, df_alloc, weights, prices, returns, portfolio_ret, portfolio_value>>

\* return series on a few dates, with and without undefined cells
TrackingDates == {<<>>, <<5>>, <<5, 8>>, <<8, 9>>, <<5, 16>>, <<9, 16>>}

TrackingSeries ==
    {Series(idx, [i \in 1..Len(idx) |-> v[i]]) :
        idx \in TrackingDates, v \in [1..2 -> {Num(0), Rat(1, 10), NaN}]}

ComputeTrackingMetrics ==
    /\ result.status = "none"
    /\ \E etf_returns \in TrackingSeries, benchmark_returns \in TrackingSeries :
        result' = Called("compute_tracking_metrics", <<etf_returns, benchmark_returns>>,
                         Ok(compute_tracking_metrics(etf_returns, benchmark_returns)))
    /\ UNCHANGED <<requests, cache, df_alloc, weights, prices, returns, portfolio_ret, portfolio_value>>

\* return series of one fund over a week and the Monday after, and named
\* windows that start or end on a trading day, on a weekend, before the
\* first return or after the last
StressDates == {<<>>, <<2, 3, 4>>, <<2, 3, 4, 5>>, <<3, 4, 5, 8>>}

StressReturns ==
    {Series(idx, SubSeq(v, 1, Len(idx))) :
        idx \in StressDates, v \in [1..4 -> {Rat(-1, 2), Num(0), Num(1)}]}

StressWindows ==
    {<<"Shock", 3, 4>>, <<"Shock", 4, 7>>, <<"Shock", 1, 3>>, <<"Shock", 6, 8>>,
     <<"Shock", 6, 7>>, <<"Shock", 9, 10>>}

StressPeriods ==
    {<<>>} \cup {<<w>> : w \in StressWindows}
           \cup {<<w, <<"Pivot", 5, 5>>>> : w \in StressWindows}

\* the return series of the fund, as main holds it before the stress table
\* (etf_returns, pages/etf_due_diligence.py line 159)
EtfReturns ==
    /\ result.status = "none"
    /\ \E etf_returns \in StressReturns :
        /\ portfolio_ret' = etf_returns
        /\ result' = Called("etf_returns", <<>>, Ok(etf_returns))
    /\ UNCHANGED <<requests, cache, df_alloc, weights, prices, returns, portfolio_value>>

StressMetrics ==
    /\ result.fn = "etf_returns"
    /\ \E stress_periods \in StressPeriods :
        result' = Called("stress_metrics", <<stress_periods>>,
                         Ok(stress_metrics(portfolio_ret, stress_periods)))
    /\ UNCHANGED <<requests, cache, df_alloc, weights, prices, returns, portfolio_ret, portfolio_value>>

VolumeAnswers ==
    {[shape |-> sh, level |-> NaN] : sh \in {"raises", "empty", "no volume", "multi"}}
    \cup {[shape |-> "flat", level |-> v] : v \in {NaN, Num(50000), Num(200000)}}

DueDiligenceMain ==
    /\ result.status = "none"
    /\ \E ticker_text \in {"spy", "SPY", " QQQ"}, benchmark_text \in {"SPY", "AGG", " "},
          market \in Markets(<<"SPY", "AGG">>), answer \in VolumeAnswers :
        \E run \in {dd_main(ticker_text, benchmark_text, market, answer)} :
            Ran("etf_due_diligence.main", <<ticker_text, benchmark_text, answer.shape>>, NoAlloc, run)

DueDiligenceNext ==
    \/ PortfolioFitSummary
    \/ ComputeTrackingMetrics
    \/ EtfReturns
    \/ StressMetrics
    \/ DueDiligenceMain
    \/ Rerun

SpecDueDiligence == Init /\ [][DueDiligenceNext]_vars

----------------------------------------------------------------------------
\* The download routines, called with a request and the provider's answer

DownloadAdjustedPrices ==
    /\ result.status = "none"
    /\ \E tickers \in TickerLists, market \in Markets(<<"A", "B">>) :
        LET out == download_adjusted_prices(market, tickers)
        IN  /\ result' = Called("download_adjusted_prices", <<tickers, market>>, out)
            /\ prices' = IF out.status = "ok" THEN out.value ELSE NoFrame
            /\ requests' = download_adjusted_prices_requests(market, tickers)
    /\ UNCHANGED <<cache, df_alloc, weights, returns, portfolio_ret, portfolio_value>>

DownloadPriceData ==
    /\ result.status = "none"
    /\ \E tickers \in TickerLists, market \in Markets(<<"A", "B">>) :
        \E call \in {download_price_data(cache, {}, market, tickers)} :
            /\ result' = Called("download_price_data", <<tickers, market>>, call.out)
            /\ prices' = IF call.out.status = "ok" THEN call.out.value ELSE NoFrame
            /\ requests' = call.requests
            /\ cache' = call.cache
    /\ UNCHANGED <<df_alloc, weights, returns, portfolio_ret, portfolio_value>>

DownloadData ==
    /\ result.status = "none"
    /\ \E tickers \in TickerLists, market \in Markets(<<"A", "B">>) :
        LET out == download_data(market, tickers)
        IN  /\ result' = Called("download_data", <<tickers, market>>, out)
            /\ prices' = IF out.status = "ok" THEN out.value ELSE NoFrame
            /\ requests' = <<Request(market, tickers)>>
    /\ UNCHANGED <<cache, df_alloc, weights, returns, portfolio_ret, portfolio_value>>

\* the process is started again: the session and the cache are lost
Restart ==
    /\ result.status # "none"
    /\ df_alloc' = NoAlloc
    /\ weights' = NoSeries
    /\ prices' = NoFrame
    /\ returns' = NoFrame
    /\ portfolio_ret' = NoSeries
    /\ portfolio_value' = NoSeries
    /\ result' = NoResult
    /\ requests' = <<>>
    /\ cache' = <<>>

DownloadNext ==
    \/ DownloadAdjustedPrices
    \/ DownloadPriceData
    \/ DownloadData
    \/ Restart

SpecDownload == Init /\ [][DownloadNext]_vars

----------------------------------------------------------------------------
\* One process calling download_price_data again and again: the cache of
\* _download_price_data_cached lives as long as the process.  The calls ask
\* for SPY, which the provider answers in every way, and for other tickers
\* one after the other, which fill the cache.

OtherTickers ==
    <<"F01", "F02", "F03", "F04", "F05", "F06", "F07", "F08", "F09",
      "F10", "F11", "F12", "F13", "F14", "F15", "F16", "F17">>

\* the answers of the provider to a request for SPY
SpyMarkets ==
    {Market(<<"SPY">>, listed, "absent", n, "mixed") : listed \in {{}, {"SPY"}}, n \in {1, 3}}
    \cup {ProviderDown}

\* the objects the caller still holds: the table of its last call
Held == IF result.fn = "download_price_data" /\ result.status = "ok" THEN {result.value.id} ELSE {}

\* the first of the other tickers not asked for yet
NextOther(c) ==
    LET asked == {k \in 1..Len(OtherTickers) : CachePosition(c, <<OtherTickers[k]>>) > 0}
    IN  IF asked = {} THEN 1 ELSE 1 + (CHOOSE k \in asked : \A m \in asked : m <= k)

CallDownloadPriceData(tickers, market) ==
    \E call \in {download_price_data(cache, Held, market, tickers)} :
        /\ result' = Called("download_price_data", <<tickers, market>>, call.out)
        /\ prices' = IF call.out.status = "ok" THEN call.out.value ELSE NoFrame
        /\ requests' = call.requests
        /\ cache' = call.cache
        /\ UNCHANGED <<df_alloc, weights, returns, portfolio_ret, portfolio_value>>

DownloadSpy ==
    \E market \in SpyMarkets : CallDownloadPriceData(<<"SPY">>, market)

DownloadOther ==
    /\ NextOther(cache) <= Len(OtherTickers)
    /\ \E t \in {OtherTickers[NextOther(cache)]} :
        CallDownloadPriceData(<<t>>, Market(<<t>>, {t}, "absent", 1, "flat"))

CacheNext ==
    \/ DownloadSpy
    \/ DownloadOther
    \/ Restart

SpecCache == Init /\ [][CacheNext]_vars

----------------------------------------------------------------------------
\* Properties of the pages (checked under Spec)

\* a backtest or analysis has returned after multiplying weights and returns
Multiplied(fns) ==
    /\ result.fn \in fns
    /\ result.status = "ok"
    /\ ~FrameEmpty(returns)

\* some ticker of the weight vector has no column in the retrieved prices
SomeTickerAbsent ==
    \E i \in 1..Len(weights.index) : weights.index[i] \notin Range(prices.columns)

\* the weights that meet a column of the return table
SurvivingWeights == AlignWeights(weights, returns.columns)

Tolerance == Rat(1, 1000000000)

SumsToOne(w) ==
    /\ Le(Sub(SumSeq(w), Num(1)), Tolerance)
    /\ Le(Sub(Num(1), SumSeq(w)), Tolerance)

\* C1: when tickers of the allocation are absent from the retrieved price
\* table, the weights multiplied with the asset returns are re-normalized
\* over the surviving tickers: they sum to 1, and a single surviving asset
\* carries weight 1.0 (the portfolio return is that asset's return).
C1_RenormalizedOverSurvivors ==
    (Multiplied({"backtest_portfolio", "main"}) /\ SomeTickerAbsent
        /\ SumSeq(weights.values) = Num(1)) =>
        /\ SumSeq(SurvivingWeights) = Num(1)
        /\ Len(returns.columns) = 1 =>
              \A i \in 1..Len(returns.index) : portfolio_ret.values[i] = returns.data[i][1]

\* C2: in backtest_portfolio and run_backtest on a generated allocation and
\* in the Risk Lab analysis of a manual portfolio, the weight vector
\* multiplied with the asset returns sums to 1.0 within 1e-9.
C2_WeightsSumToOne ==
    /\ (Multiplied({"backtest_portfolio"}) /\ result.args[1] = "portfolio_generator")
          => SumsToOne(weights.values)
    /\ Multiplied({"run_backtest"}) => SumsToOne(weights.values)
    /\ Multiplied({"main"}) => SumsToOne(SurvivingWeights)

\* the weight texts of the Risk Lab input hold no positive number
NoPositiveManualWeight ==
    \A k \in 1..Len(result.args[2]) :
        /\ ParseFloat(result.args[2][k]).status = "ok"
        /\ Le(ParseFloat(result.args[2][k]).value, Num(0))

\* C3: the conversion of an allocation to a weight vector drops every
\* ticker whose weight is zero or negative, and fails (no weight vector,
\* an error) when no ticker with a positive weight remains.
C3_NonPositiveDropped ==
    /\ (result.fn \in {"backtest_portfolio", "main"} /\ ~FrameEmpty(returns)) =>
          \A i \in 1..Len(weights.index) : Gt(weights.values[i], Num(0))
    /\ (result.fn = "backtest_portfolio" /\ df_alloc.column = "Allocation (%)"
          /\ \A i \in 1..Len(df_alloc.values) : Le(df_alloc.values[i], Num(0)))
          => (result.status = "raised" /\ weights = NoSeries)
    /\ (result.fn = "main" /\ Len(result.args[1]) = Len(result.args[2])
          /\ result.args[2] # <<>> /\ NoPositiveManualWeight)
          => (result.status = "stopped" /\ weights = NoSeries)

----------------------------------------------------------------------------
\* Properties of the analytics core (checked under SpecEngine)

SingleAsset == Len(prices.columns) = 1

\* the returns in hand are the daily returns of the price table
DailyReturns ==
    /\ ~FrameEmpty(prices)
    /\ returns = compute_returns(prices, "daily").value

\* v lists, in the order of the request, the requested tickers found in cols
OrderedSelection(v, tickers, cols) ==
    LET hit == {i \in 1..Len(tickers) : tickers[i] \in Range(cols)}
        at == KeepRows(Len(tickers), hit)
    IN  /\ Len(v) = Cardinality(hit)
        /\ \A k \in 1..Len(v) : v[k] = tickers[at[k]]

NoneRequestedIn(tickers, cols) == \A i \in 1..Len(tickers) : tickers[i] \notin Range(cols)

\* C4: the ticker-intersection step (ensure_valid_tickers, and the same
\* step inside _load_prices) returns exactly the requested tickers that are
\* columns of the retrieved table, in requested order; it raises if and
\* only if there is none, and so never returns an empty list or a table
\* that is empty or holds cells other than the retrieved ones.
C4_TickerIntersection ==
    /\ result.fn = "ensure_valid_tickers" =>
        LET tickers == result.args[1]
        IN  IF NoneRequestedIn(tickers, prices.columns)
            THEN result.status = "raised" /\ result.type = "ValueError"
            ELSE /\ result.status = "ok"
                 /\ result.value # <<>>
                 /\ OrderedSelection(result.value, tickers, prices.columns)
    /\ result.fn = "_load_prices" =>
        LET tickers == result.args[1]
            dl == download_adjusted_prices(prices, tickers)
        IN  dl.status = "ok" =>
              IF NoneRequestedIn(tickers, dl.value.columns)
              THEN /\ result.status = "raised"
                   /\ result.msg = "None of the requested tickers returned price data."
              ELSE /\ result.status = "ok"
                   /\ ~FrameEmpty(result.value)
                   /\ OrderedSelection(result.value.columns, tickers, dl.value.columns)
                   /\ result.value.index = dl.value.index
                   /\ \A i \in 1..Len(result.value.index), j \in 1..Len(result.value.columns) :
                        \E k \in 1..Len(dl.value.columns) :
                            /\ dl.value.columns[k] = result.value.columns[j]
                            /\ result.value.data[i][j] = dl.value.data[i][k]

\* C4 witness: a request in another order than the table's columns
C4_Witness ==
    /\ result.fn = "ensure_valid_tickers"
    /\ prices.columns = <<"A", "B">>
    /\ result.args[1] = <<"B", "A">>
    /\ result.value = <<"B", "A">>

\* an empty value curve, or one whose returns are empty
NoCurveReturns == Len(SeriesDropNa(SeriesPctChange(portfolio_value)).values) = 0

\* C5: every metrics routine fails with an error on an empty return series
\* and returns no value or default record: performance_metrics,
\* historical_var, parametric_var, and calculate_performance_metrics when
\* the value curve yields zero returns.
C5_EmptySeriesRaises ==
    /\ (result.fn \in {"performance_metrics", "historical_var", "parametric_var"}
          /\ SeriesEmpty(portfolio_ret)) => result.status = "raised"
    /\ (result.fn = "calculate_performance_metrics" /\ NoCurveReturns)
          => result.status = "raised"

\* C6: compute_returns fails on a table with zero rows and on an
\* unrecognised frequency, and the two failures are of distinguishable
\* types: the exception raised for the frequency is of another class than
\* the one raised for the empty table.
C6_TypedFailures ==
    result.fn = "compute_returns" =>
        /\ FrameEmpty(prices) => result.status = "raised"
        /\ result.args[1] \notin {"daily", "weekly"} => result.status = "raised"
        /\ (result.status = "raised" /\ ~FrameEmpty(prices))
              => result.type # compute_returns(NoFrame, "daily").type

\* C7: for a single gap-free asset with n >= 1 daily rows compute_returns
\* returns n - 1 observations without raising; with n = 1 the portfolio
\* return series is empty and performance_metrics raises on it.
C7_ReturnCount ==
    (SingleAsset /\ Len(prices.index) >= 1) =>
        /\ (result.fn = "compute_returns" /\ result.args[1] = "daily") =>
              /\ result.status = "ok"
              /\ Len(result.value.index) = Len(prices.index) - 1
              /\ \A i \in 1..Len(result.value.index) : ~IsNaN(result.value.data[i][1])
        /\ (result.fn = "portfolio_returns" /\ Len(prices.index) = 1) =>
              SeriesEmpty(portfolio_ret)
        /\ (result.fn = "performance_metrics" /\ Len(prices.index) = 1) =>
              /\ result.status = "raised"
              /\ result.msg = "Portfolio return series is empty."

\* C7 witness: one price row, and performance_metrics has raised
C7_Witness ==
    /\ SingleAsset
    /\ Len(prices.index) = 1
    /\ result.fn = "performance_metrics"
    /\ result.status = "raised"

\* the curve cumulative_returns(compute_returns(prices)) of a single asset
IsRoundTrip ==
    /\ SingleAsset
    /\ DailyReturns
    /\ result.fn = "cumulative_returns"
    /\ result.args[1] = "returns"

\* C8: for a single gap-free asset the curve
\* cumulative_returns(compute_returns(prices)) has a value at every time t
\* of the price table, equal to price[t] / price[0], so that its first
\* value is 1.0 (stated on tables of two rows or more, where the curve is
\* not empty).
C8_RoundTripFromOne ==
    (IsRoundTrip /\ Len(prices.index) >= 2) =>
        /\ result.value.index = prices.index
        /\ result.value.data[1][1] = Num(1)
        /\ \A t \in 1..Len(prices.index) :
              result.value.data[t][1] = Div(prices.data[t][1], prices.data[1][1])

AllZero(x) == \A i \in 1..Len(x) : x[i] = Num(0)

ZeroReturnsMeasured ==
    /\ result.fn = "performance_metrics"
    /\ ~SeriesEmpty(portfolio_ret)
    /\ AllZero(portfolio_ret.values)

\* C9: on every non-empty all-zero return series, a single observation
\* included, performance_metrics returns CAGR, Annual Volatility, Sharpe,
\* Sortino and Max Drawdown all 0, none of them undefined.
C9_ZeroReturnsAllZero ==
    ZeroReturnsMeasured =>
        /\ result.status = "ok"
        /\ VIsZero(result.value.CAGR)
        /\ VIsZero(result.value.Annual_Volatility)
        /\ VIsZero(result.value.Sharpe)
        /\ VIsZero(result.value.Sortino)
        /\ VIsZero(result.value.Max_Drawdown)

\* the returns of the value curve, as calculate_performance_metrics takes them
CurveReturns == SeriesDropNa(SeriesPctChange(portfolio_value)).values

\* C10: in every metrics routine Sharpe is reported as 0 whenever the
\* annualized volatility is 0, Sortino as 0 whenever there is no negative
\* return or the downside deviation is 0, and neither is ever undefined.
C10_RatiosGuarded ==
    /\ (result.fn = "performance_metrics" /\ result.status = "ok") =>
        /\ VIsZero(result.value.Annual_Volatility) => VIsZero(result.value.Sharpe)
        /\ (Negatives(portfolio_ret.values) = <<>>
              \/ VIsZero(Std(Negatives(portfolio_ret.values))))
              => VIsZero(result.value.Sortino)
        /\ ~VIsNaN(result.value.Sharpe)
        /\ ~VIsNaN(result.value.Sortino)
    /\ (result.fn = "calculate_performance_metrics" /\ ~NoCurveReturns) =>
        /\ VIsZero(Std(CurveReturns)) => result.value.Sharpe_Ratio = Format2(VZero)
        /\ result.value.Sharpe_Ratio # <<"nan">>

\* the cumulative growth of the portfolio returns is at a running maximum at i
NewHigh(i) ==
    LET c == CumProd1p(portfolio_ret.values)
    IN  \A k \in 1..i : Le(c[k], c[i])

AboveMinusOne(x) == \A i \in 1..Len(x) : Gt(x[i], Num(-1))

\* C11: on a non-empty return series with every return above -1, each value
\* of drawdown_curve lies in (-1, 0] and is 0 wherever the cumulative growth
\* is at a new running maximum, and the Max Drawdown of performance_metrics
\* on the same series is the minimum of that curve.
C11_DrawdownBounds ==
    (~SeriesEmpty(portfolio_ret) /\ AboveMinusOne(portfolio_ret.values)) =>
        /\ (result.fn = "drawdown_curve") =>
              /\ result.value.index = portfolio_ret.index
              /\ \A i \in 1..Len(result.value.values) :
                    /\ Gt(result.value.values[i], Num(-1))
                    /\ Le(result.value.values[i], Num(0))
                    /\ NewHigh(i) => result.value.values[i] = Num(0)
        /\ (result.fn = "performance_metrics") =>
              /\ result.status = "ok"
              /\ result.value.Max_Drawdown = VQ(MinSeq(drawdown_curve(portfolio_ret).values))
              /\ \E i \in 1..Len(portfolio_ret.values) :
                    result.value.Max_Drawdown = VQ(Sub(Div(CumProd1p(portfolio_ret.values)[i],
                                                        CumMax(CumProd1p(portfolio_ret.values))[i]),
                                                    Num(1)))

\* C11 witness: a curve that falls below its high and comes back to it
C11_Witness ==
    /\ result.fn = "drawdown_curve"
    /\ Len(result.value.values) = 3
    /\ Lt(result.value.values[2], Num(0))
    /\ result.value.values[3] = Num(0)

NotConstant(x) == \E i, j \in 1..Len(x) : x[i] # x[j]

\* C12: on any return series that is not constant, historical_var at
\* alpha = 0.05 returns VaR >= 0 and CVaR >= 0 with CVaR >= VaR, VaR being
\* the negated empirical alpha-quantile and CVaR the negated mean of the
\* returns at or below it.
C12_HistoricalVarNonNegative ==
    (result.fn = "historical_var" /\ result.args[1] = Rat(1, 20)
        /\ NotConstant(portfolio_ret.values)) =>
        /\ result.status = "ok"
        /\ result.value.VaR = VQ(Neg(Quantile(portfolio_ret.values, Rat(1, 20))))
        /\ Le(Num(0), result.value.VaR[2])
        /\ Le(Num(0), result.value.CVaR[2])
        /\ Le(result.value.VaR[2], result.value.CVaR[2])

\* w' cov w of the call in hand
PortfolioVariance ==
    LET cov_matrix == result.args[1]
        w == AlignWeights(weights, cov_matrix.index)
        n == Len(cov_matrix.index)
    IN  SumSeq([j \in 1..n |->
            SumSeq([k \in 1..n |-> Mul(Mul(w[j], cov_matrix.data[j][k]), w[k])])])

\* the sum of a column of rational values
ColumnSum(col) == SumSeq([j \in 1..Len(col) |-> col[j][2]])

\* C13: volatility_contributions: with a strictly positive portfolio
\* variance the 'Pct Contribution' column sums to 1; with a variance <= 0
\* every 'Contribution' and every 'Pct Contribution' is 0.
C13_ContributionsSumToOne ==
    result.fn = "volatility_contributions" =>
        /\ Gt(PortfolioVariance, Num(0)) =>
              /\ \A j \in 1..Len(result.value.Pct_Contribution) :
                    VIsQ(result.value.Pct_Contribution[j])
              /\ ColumnSum(result.value.Pct_Contribution) = Num(1)
        /\ Le(PortfolioVariance, Num(0)) =>
              \A j \in 1..Len(result.value.index) :
                  /\ VIsZero(result.value.Contribution[j])
                  /\ VIsZero(result.value.Pct_Contribution[j])

\* C13 witness: two assets with unequal shares of a positive variance
C13_Witness ==
    /\ result.fn = "volatility_contributions"
    /\ Len(result.value.index) = 2
    /\ Gt(PortfolioVariance, Num(0))
    /\ result.value.Pct_Contribution[1] # result.value.Pct_Contribution[2]
    /\ ~VIsZero(result.value.Pct_Contribution[1])

\* the shock map gives every ticker of the weight vector the shock s
SameShock(shock_map, s) ==
    \A i \in 1..Len(weights.index) : DictGet(shock_map, weights.index[i], NaN) = s

\* C14: evaluate_stress_scenarios reports for each scenario, in scenario
\* order, the sum over the tickers of the weight vector of shock times
\* weight, a ticker missing from the shock map counting as shock 0 and a
\* shocked ticker without weight counting for nothing; with weights summing
\* to 1 and the same shock s on every weighted ticker the impact is s
\* (in exact arithmetic).
C14_StressImpact ==
    result.fn = "evaluate_stress_scenarios" =>
        LET scenarios == result.args[1]
        IN  /\ Len(result.value) = Len(scenarios)
            /\ \A k \in 1..Len(scenarios) :
                  /\ result.value[k].Scenario = scenarios[k][1]
                  /\ result.value[k].Estimated_Impact =
                        SumSeq([i \in 1..Len(weights.index) |->
                            IF DictHas(scenarios[k][2], weights.index[i])
                            THEN Mul(DictGet(scenarios[k][2], weights.index[i], NaN), weights.values[i])
                            ELSE Num(0)])
                  /\ \A s \in {ScenarioShocks[j][2] : j \in 1..Len(ScenarioShocks)} :
                        (SameShock(scenarios[k][2], s) /\ SumSeq(weights.values) = Num(1))
                            => result.value[k].Estimated_Impact = s

\* C14 witness: weights 0.6 / 0.4 under the -15% scenario give -0.15
C14_Witness ==
    /\ result.fn = "evaluate_stress_scenarios"
    /\ weights.values = <<Rat(3, 5), Rat(2, 5)>>
    /\ SameShock(result.args[1][1][2], Rat(-15, 100))
    /\ result.value[1].Estimated_Impact = Rat(-15, 100)

----------------------------------------------------------------------------
\* Properties of the due-diligence routines (checked under SpecDueDiligence)

\* the metric of the call in hand is present, defined and below / above q
Below(key, q) ==
    \E i \in 1..Len(result.args[1]) :
        /\ result.args[1][i][1] = key
        /\ ~VIsNaN(result.args[1][i][2])
        /\ VLtQ(result.args[1][i][2], q)

Above(key, q) ==
    \E i \in 1..Len(result.args[1]) :
        /\ result.args[1][i][1] = key
        /\ ~VIsNaN(result.args[1][i][2])
        /\ VGtQ(result.args[1][i][2], q)

\* C15: portfolio_fit_summary returns the label of the first rule that
\* matches, in the order: tracking error < 3% and volatility < 15% (core
\* allocation), tracking error < 3% (beta exposure), max drawdown > -10%
\* (defensive diversifier), average volume < 100,000 (niche sleeve),
\* volatility > 25% (risk amplifier), else satellite position; a missing or
\* undefined metric satisfies no rule.
C15_FirstMatchingRule ==
    result.fn = "portfolio_fit_summary" =>
        result.value =
            CASE Below("tracking_error", Rat(3, 100)) /\ Below("volatility", Rat(15, 100))
                    -> "core allocation"
              [] Below("tracking_error", Rat(3, 100)) /\ ~Below("volatility", Rat(15, 100))
                    -> "beta exposure with tight tracking"
              [] ~Below("tracking_error", Rat(3, 100)) /\ Above("max_drawdown", Rat(-1, 10))
                    -> "defensive diversifier"
              [] ~Below("tracking_error", Rat(3, 100)) /\ ~Above("max_drawdown", Rat(-1, 10))
                    /\ Below("average_volume", Num(100000))
                    -> "niche sleeve with limited liquidity"
              [] ~Below("tracking_error", Rat(3, 100)) /\ ~Above("max_drawdown", Rat(-1, 10))
                    /\ ~Below("average_volume", Num(100000)) /\ Above("volatility", Rat(1, 4))
                    -> "risk amplifier"
              [] OTHER -> "satellite position"

\* C15 witness: a thin and volatile fund with a shallow drawdown is a
\* defensive diversifier, the earlier rule
C15_Witness ==
    /\ result.fn = "portfolio_fit_summary"
    /\ ~Below("tracking_error", Rat(3, 100))
    /\ Above("max_drawdown", Rat(-1, 10))
    /\ Below("average_volume", Num(100000))
    /\ Above("volatility", Rat(1, 4))
    /\ result.value = "defensive diversifier"

Undefined == {VNaN}

\* C16: compute_tracking_metrics returns undefined values for the tracking
\* difference and the tracking error, without raising, whenever the inner
\* join of the two return series has no rows; on the due-diligence page
\* every undefined tracking or liquidity value is displayed as "N/A", and
\* a run that has fetched the volume never fails.
C16_UndefinedShownAsNA ==
    /\ (result.fn = "compute_tracking_metrics"
          /\ InnerJoinDates(result.args[1], result.args[2]) = <<>>) =>
          /\ result.status = "ok"
          /\ result.value.tracking_difference \in Undefined
          /\ result.value.tracking_error \in Undefined
    /\ (result.fn = "etf_due_diligence.main") =>
          /\ result.status = "raised" => result.args[3] \in {"raises", "multi"}
          /\ result.status = "ok" =>
              /\ result.value.tracking.tracking_difference \in Undefined
                    <=> result.value.Tracking_Difference = <<"N/A">>
              /\ result.value.tracking.tracking_error \in Undefined
                    <=> result.value.Tracking_Error = <<"N/A">>
              /\ result.value.liquidity.average_volume \in Undefined
                    <=> result.value.Average_Daily_Volume = <<"N/A">>
              /\ result.value.liquidity.volatility_proxy \in Undefined
                    <=> result.value.Volatility_Proxy = <<"N/A">>
              /\ result.value.liquidity.zero_return_pct \in Undefined
                    <=> result.value.Zero_Return_Days = <<"N/A">>

\* C16 witness: the benchmark has no prices, the volume is undefined, and
\* the page shows "N/A" for the tracking values and the volume
C16_Witness ==
    /\ result.fn = "etf_due_diligence.main"
    /\ result.status = "ok"
    /\ result.value.tracking.tracking_error \in Undefined
    /\ result.value.Tracking_Error = <<"N/A">>
    /\ result.value.Average_Daily_Volume = <<"N/A">>
    /\ result.value.Volatility_Proxy # <<"N/A">>

\* C16 witness of the routine: two series without a common date
C16_WitnessDisjoint ==
    /\ result.fn = "compute_tracking_metrics"
    /\ ~SeriesEmpty(result.args[1])
    /\ ~SeriesEmpty(result.args[2])
    /\ InnerJoinDates(result.args[1], result.args[2]) = <<>>
    /\ result.value.tracking_error = VNaN

----------------------------------------------------------------------------
\* Properties of the download routines (checked under SpecDownload)

\* the provider returned no prices for column j of the table
NoPricesIn(df, j) == \A i \in 1..Len(df.index) : IsNaN(df.data[i][j])

\* C17: a requested ticker for which the provider returned no prices is
\* absent from the columns of the table that download_adjusted_prices and
\* download_price_data return: no column holds undefined values only.
C17_FailedTickerAbsent ==
    (result.fn \in {"download_adjusted_prices", "download_price_data"}
        /\ result.status = "ok") =>
        \A j \in 1..Len(result.value.columns) : ~NoPricesIn(result.value, j)

\* C18: when the provider's call raises, download_price_data,
\* download_adjusted_prices and download_data raise the engine's error with
\* a readable message, never the provider's exception.
C18_ProviderFailureWrapped ==
    (result.fn \in {"download_price_data", "download_adjusted_prices", "download_data"}
        /\ ProviderRaises(result.args[2])
        /\ (result.fn = "download_adjusted_prices" =>
                \E i \in 1..Len(result.args[1]) : StripUpper(result.args[1][i]) # "")) =>
        /\ result.status = "raised"
        /\ result.type = "ValueError"
        /\ result.type # result.args[2].error
        /\ result.msg = handle_network_error(ProviderException(result.args[2]))

\* the header of the uploaded numeric column, trimmed and in lower case
HeaderKey(column) ==
    CASE column \in {"Allocation (%)", "allocation (%)"} -> "allocation (%)"
      [] column \in {"Weight", " Weight"} -> "weight"
      [] OTHER -> column

\* an upload page has run on a file
Uploaded ==
    \/ result.fn = "upload_backtest"
    \/ result.fn = "backtest_portfolio" /\ result.args[1] = "backtest"

ColumnErrors ==
    {"Allocation (%)", "Weight", "CSV must contain either 'Allocation (%)' or 'Weight' column."}

\* C19: the upload backtests accept a CSV with a Ticker column and a
\* Weight (0-1) or Allocation (%) (0-100) column, the header matched after
\* trimming and without regard to case, and run with the same normalized
\* weights for both representations: the values divided by their sum.
C19_UploadAccepted ==
    (Uploaded /\ HeaderKey(result.args[2]) \in {"weight", "allocation (%)"}
        /\ Gt(SumSeq(df_alloc.values), Num(0))) =>
        /\ ~(result.status = "raised" /\ result.msg \in ColumnErrors)
        /\ result.status = "ok" =>
              \A i \in 1..Len(df_alloc.values) :
                  weights.values[i] = Div(df_alloc.values[i], SumSeq(df_alloc.values))

----------------------------------------------------------------------------
\* Properties of the analytics core (checked under SpecEngine), continued

\* the weight of ticker t, 0 for a ticker without an entry
WeightOrZero(t) ==
    IF \E k \in 1..Len(weights.index) : weights.index[k] = t
    THEN weights.values[CHOOSE k \in 1..Len(weights.index) : weights.index[k] = t]
    ELSE Num(0)

\* the weighted sum of row i of a return table
WeightedRow(r, i) ==
    SumSeq([j \in 1..Len(r.columns) |-> Mul(WeightOrZero(r.columns[j]), r.data[i][j])])

\* C20: portfolio_returns yields for every row of the return table the sum
\* over the table's assets of weight times return, an asset without weight
\* counting 0 and a weight without column counting for nothing; the value
\* curve of compute_portfolio_value compounds the same weighted sums of the
\* returns of the prices, not the prices.
C20_WeightedSumOfReturns ==
    /\ result.fn = "portfolio_returns" =>
          /\ portfolio_ret.index = returns.index
          /\ \A i \in 1..Len(returns.index) : portfolio_ret.values[i] = WeightedRow(returns, i)
    /\ result.fn = "compute_portfolio_value" =>
          LET r == DropNaAny(PctChange(prices))
          IN  /\ portfolio_value.index = r.index
              /\ \A i \in 1..Len(r.index) :
                    portfolio_value.values[i] =
                        ProdSeq([k \in 1..i |-> Add(Num(1), WeightedRow(r, k))])

\* C20 witness: a weight for a ticker outside the table, a column without
\* weight, and a row whose return is 0.6 times the return of A
C20_Witness ==
    /\ result.fn = "portfolio_returns"
    /\ weights.index = <<"A", "C">>
    /\ returns.columns = <<"A", "B">>
    /\ \E i \in 1..Len(returns.index) :
          /\ returns.data[i][1] = Num(1)
          /\ returns.data[i][2] = Rat(-1, 2)
          /\ portfolio_ret.values[i] = Rat(3, 5)

\* every observation of x is the same finite number
AllEqual(x) == Len(x) > 0 /\ \A i \in 1..Len(x) : ~IsNaN(x[i]) /\ x[i] = x[1]

\* C21: on every non-empty return series whose observations are all equal,
\* a series of exactly one observation included, parametric_var returns
\* VaR = CVaR = max(-mean, 0), and neither value is undefined.
C21_ConstantSeriesCollapses ==
    (result.fn = "parametric_var" /\ AllEqual(portfolio_ret.values)) =>
        /\ result.status = "ok"
        /\ result.value.VaR = VQ(Max2(Neg(portfolio_ret.values[1]), Num(0)))
        /\ result.value.CVaR = result.value.VaR
        /\ ~VIsNaN(result.value.VaR)

----------------------------------------------------------------------------
\* Properties of the due-diligence routines (checked under
\* SpecDueDiligence), continued

\* cumulative growth of the return series handed to stress_metrics
StressGrowth == CumProd1p(portfolio_ret.values)

\* the returns dated within a window, and those dated before it
InWindow(w) == RowsBetween(portfolio_ret.index, w[2], w[3])

BeforeWindow(w) ==
    KeepRows(Len(portfolio_ret.index),
             {i \in 1..Len(portfolio_ret.index) : portfolio_ret.index[i] < w[2]})

\* growth at the last return before the window
PreWindowValue(w) == StressGrowth[BeforeWindow(w)[Len(BeforeWindow(w))]]

RowsNamed(name) ==
    {k \in 1..Len(result.value.rows) : result.value.rows[k].Scenario = name}

\* C22: for each named window holding a return, stress_metrics reports as
\* Drawdown the minimum over the returns of the window of growth divided by
\* the value immediately before the window, minus 1 (the decline from the
\* pre-window value, not from a peak inside the window); a window holding
\* no return has no row.
C22_DrawdownFromPreWindowValue ==
    result.fn = "stress_metrics" =>
        \A k \in 1..Len(result.args[1]) :
            LET w == result.args[1][k]
                in == InWindow(w)
            IN  IF in = <<>> THEN RowsNamed(w[1]) = {}
                ELSE /\ Cardinality(RowsNamed(w[1])) = 1
                     /\ BeforeWindow(w) # <<>> =>
                          \A r \in RowsNamed(w[1]) :
                              result.value.rows[r].Drawdown =
                                  VQ(Sub(MinSeq([j \in 1..Len(in) |->
                                            Div(StressGrowth[in[j]], PreWindowValue(w))]),
                                         Num(1)))

\* the returns dated at or after the end of the window whose growth is at
\* least the pre-window value
RecoveredAfter(w) ==
    KeepRows(Len(portfolio_ret.index),
             {i \in 1..Len(portfolio_ret.index) :
                 /\ portfolio_ret.index[i] >= w[3]
                 /\ Le(PreWindowValue(w), StressGrowth[i])})

\* C23: for each reported window, Recovery Days is the number of calendar
\* days from the window end to the first return dated at or after the
\* window end whose growth is at least the pre-window value, and is
\* undefined exactly when no such return exists.
C23_RecoveryDaysFromWindowEnd ==
    result.fn = "stress_metrics" =>
        \A k \in 1..Len(result.args[1]) :
            LET w == result.args[1][k]
            IN  (InWindow(w) # <<>> /\ BeforeWindow(w) # <<>>) =>
                    \A r \in RowsNamed(w[1]) :
                        result.value.rows[r].Recovery_Days =
                            IF RecoveredAfter(w) = <<>> THEN VNaN
                            ELSE VQ(Num(portfolio_ret.index[RecoveredAfter(w)[1]] - w[3]))

----------------------------------------------------------------------------
\* Properties of the backtests (checked under Spec), continued

\* a backtest has returned its curve and metrics
Backtested ==
    /\ result.fn \in {"backtest_portfolio", "run_backtest", "upload_backtest"}
    /\ result.status = "ok"

\* the weight of column j of the price table of the backtest
PriceWeight(j) ==
    IF \E k \in 1..Len(weights.index) : weights.index[k] = prices.columns[j]
    THEN weights.values[CHOOSE k \in 1..Len(weights.index) : weights.index[k] = prices.columns[j]]
    ELSE Num(0)

\* sum over the assets of weight times price over first price, on row t
RebasedValue(t) ==
    SumSeq([j \in 1..Len(prices.columns) |->
               Mul(PriceWeight(j), Div(prices.data[t][j], prices.data[1][j]))])

\* C24: the value curve a backtest returns equals, at every date t of its
\* price table, the sum over the assets of weight times price[t] over
\* price[first date]; with weights that sum to 1 its first value is 1.0.
C24_RebasedWeightedSum ==
    (Backtested /\ Len(prices.index) >= 2) =>
        /\ portfolio_value.index = prices.index
        /\ \A t \in 1..Len(portfolio_value.index) : portfolio_value.values[t] = RebasedValue(t)
        /\ SumsToOne([j \in 1..Len(prices.columns) |-> PriceWeight(j)]) =>
              portfolio_value.values[1] = Num(1)

\* a backtest has ended
BacktestEnded == result.fn \in {"backtest_portfolio", "run_backtest", "upload_backtest"}

\* success: a value curve and a record of the four performance figures
SuccessOutcome ==
    /\ result.status = "ok"
    /\ Len(portfolio_value.index) > 0
    /\ "CAGR" \in DOMAIN result.value
    /\ "Max_Drawdown" \in DOMAIN result.value

\* failure: an error raised and nothing returned
FailureOutcome == result.status = "raised" /\ result.value = <<>>

\* no request follows one the provider failed or answered with nothing
NoRequestAfterFailure ==
    \A k \in 1..Len(requests) :
        requests[k].answer \in {"raised", "empty"} => k = Len(requests)

\* C25: every call of a backtest ends in exactly one terminal outcome,
\* success (a value curve and a metrics record) or failure (an error raised,
\* nothing returned); after a provider failure or an empty answer the call
\* sends no further request; and no returned record carries an error in
\* place of the metrics.
C25_TerminalOutcome ==
    BacktestEnded =>
        /\ SuccessOutcome \/ FailureOutcome
        /\ NoRequestAfterFailure
        /\ result.status = "ok" => "Erreur" \notin DOMAIN result.value

----------------------------------------------------------------------------
\* Properties of the price cache (checked under SpecCache)

\* a step in which download_price_data was called and returned a table
ReturnedTable == result'.fn = "download_price_data" /\ result'.status = "ok" /\ result' # result

\* C26: two calls of download_price_data with the same arguments receive
\* each their own copy of the price table: the object a call returns is
\* none of the objects an earlier call was given and the cache still holds,
\* so that what one caller writes into its table no other call can see.
C26_OwnCopy ==
    [][ReturnedTable => \A i \in 1..Len(cache) : cache[i].table.id # result'.value.id]_vars

\* the keys of a cache, oldest first
CacheKeys(c) == [i \in 1..Len(c) |-> c[i].key]

\* the prices of a table object
PricesOf(table) == Frame(table.index, table.columns, table.data)

\* a step in which download_price_data was called
CalledDownload == result'.fn = "download_price_data" /\ <<result, requests, cache>>' # <<result, requests, cache>>

\* the call finds an entry for its request: it sends nothing and returns the
\* prices of the entry, which becomes the most recently used
AnsweredFromCache ==
    LET key == result'.args[1]
        i == CachePosition(cache, key)
    IN  /\ requests' = <<>>
        /\ result'.status = "ok"
        /\ PricesOf(result'.value) = PricesOf(cache[i].table)
        /\ CacheKeys(cache') = Append(SelectSeq(CacheKeys(cache), LAMBDA k : k # key), key)

\* the call finds no entry: it sends the request; a failure stores nothing,
\* a success stores the provider's prices as the most recently used entry
\* and drops the least recently used one only from a cache of maxsize entries
AnsweredByProvider ==
    LET key == result'.args[1]
        market == result'.args[2]
        keys == CacheKeys(cache)
    IN  /\ requests' = <<Request(market, key)>>
        /\ result'.status = "raised" <=> requests'[1].answer \in {"raised", "empty"}
        /\ result'.status = "raised" => cache' = cache
        /\ result'.status = "ok" =>
            /\ PricesOf(result'.value) = download_price_data_miss(market, key).value
            /\ CacheKeys(cache') = Append(IF Len(keys) < maxsize THEN keys ELSE Tail(keys), key)
            /\ PricesOf(cache'[Len(cache')].table) = PricesOf(result'.value)

\* C30: a failed call of download_price_data leaves no cached result, so the
\* next call with the same arguments contacts the provider again; after a
\* success a later call with the same arguments returns the same prices
\* without contacting the provider, until the entry is evicted as the least
\* recently used one among more than 16 distinct requests.
C30_CacheContract ==
    [][CalledDownload =>
        /\ Len(cache') <= maxsize
        /\ \A j \in 1..Len(cache') : PricesOf(cache'[j].table) \in
               {PricesOf(cache[i].table) : i \in 1..Len(cache)}
               \cup (IF result'.status = "ok" THEN {PricesOf(result'.value)} ELSE {})
        /\ IF CachePosition(cache, result'.args[1]) > 0
           THEN AnsweredFromCache
           ELSE AnsweredByProvider]_vars

\* SPY was fetched, sixteen other requests have followed and the oldest of
\* them is evicted, and a call for SPY is still answered from the cache, with
\* the prices of the first answer and not those the provider has now
C30_Witness ==
    /\ result.fn = "download_price_data"
    /\ result.args[1] = <<"SPY">>
    /\ result.status = "ok"
    /\ requests = <<>>
    /\ Len(cache) = maxsize
    /\ CachePosition(cache, <<"F01">>) = 0
    /\ CachePosition(cache, <<"F17">>) > 0
    /\ ~ProviderRaises(result.args[2])
    /\ Request(result.args[2], <<"SPY">>).answer = "data"
    /\ PricesOf(result.value) # download_price_data_miss(result.args[2], <<"SPY">>).value

----------------------------------------------------------------------------
\* The annualised growth rates (checked under SpecEngine)

\* growth ** (periods / n) - 1
AnnualisedGrowth(growth, periods, n) == VPow1(growth, Rat(periods, n))

\* the number of return observations of a value curve
ReturnObservations(pv) == Len(SeriesDropNa(SeriesPctChange(pv)).values)

\* the growth of a value curve from its first value to its last
CurveGrowth(pv) == Div(pv.values[Len(pv.values)], pv.values[1])

\* C27: every routine that annualises a growth rate raises the growth to
\* periodsPerYear / N, N being the number of return observations:
\* performance_metrics, calculate_performance_metrics and
\* compute_portfolio_metrics alike.
C27_CagrExponent ==
    /\ (result.fn = "performance_metrics" /\ result.status = "ok") =>
        result.value.CAGR =
            AnnualisedGrowth(ProdSeq([i \in 1..Len(NonNaN(portfolio_ret.values)) |->
                                        Add(Num(1), NonNaN(portfolio_ret.values)[i])]),
                             result.args[2], Len(portfolio_ret.values))
    /\ (result.fn = "calculate_performance_metrics" /\ ReturnObservations(portfolio_value) > 0) =>
        result.value.CAGR =
            FormatPct2(AnnualisedGrowth(CurveGrowth(portfolio_value), 252, ReturnObservations(portfolio_value)))
    /\ (result.fn = "compute_portfolio_metrics" /\ ReturnObservations(portfolio_value) > 0) =>
        result.value.Annualized_Return =
            FormatPct2(AnnualisedGrowth(CurveGrowth(portfolio_value), 252, ReturnObservations(portfolio_value)))

----------------------------------------------------------------------------
\* Properties of the portfolio generator (checked under Spec)

\* the generator page has run: risk, horizon and ESG flag are result.args[2..4]
Generated == result.fn = "backtest_portfolio" /\ result.args[1] = "portfolio_generator"

\* C28: for every risk level, horizon and ESG flag the 'Allocation (%)'
\* values of generate_portfolio_allocation are rounded to two decimals,
\* non-negative, and sum to exactly 100.00.
C28_AllocationSumsTo100 ==
    Generated =>
        /\ \A i \in 1..Len(df_alloc.values) :
            /\ df_alloc.values[i] = RoundTo(df_alloc.values[i], 100)
            /\ Le(Num(0), df_alloc.values[i])
        /\ SumSeq(df_alloc.values) = Num(100)

\* the adjustment the comments of the branches give each horizon
OwnAdjustment(alloc, horizon) ==
    IF horizon = "Very Long (>10 years)"
    THEN LET a1 == DictSet(alloc, "QQQ", DictGet(alloc, "QQQ", 0) + 10)
         IN  DictSet(a1, "BTC-USD", DictGet(a1, "BTC-USD", 0) + 5)
    ELSE HorizonAdjusted(alloc, horizon)

\* the percentages of an adjusted allocation, after the ESG filter
Percentages(adjusted, esg) ==
    LET alloc == IF esg /\ DictHas(adjusted, "BTC-USD") THEN DictPop(adjusted, "BTC-USD")
                 ELSE adjusted
        total == SumSeq([i \in 1..Len(alloc) |-> Num(alloc[i][2])])
    IN  AllocFrame("Allocation (%)", DictKeys(alloc),
                   [i \in 1..Len(alloc) |->
                       RoundTo(Mul(Div(Num(alloc[i][2]), total), Num(100)), 100)])

\* C29: each of the four configured horizons selects its own adjustment:
\* 'Very Long (>10 years)' gets QQQ + 10 and BTC-USD + 5, not the QQQ + 5 of
\* 'Long (5-10 years)'; no branch is unreachable.
C29_OwnHorizonAdjustment ==
    Generated =>
        df_alloc = Percentages(OwnAdjustment(BASE_ALLOCATIONS(result.args[2]), result.args[3]),
                               result.args[4])

====
